---- MODULE Spec2Model ----
(***************************************************************************)
(* Van keyword-reply plugin (src/main.py).                                 *)
(*                                                                         *)
(* Part 1 - the cooldown ledger (CoolingManager) driven by the message     *)
(* handlers (KeywordPlugin.handle_group_message / handle_private_message). *)
(* Every asyncio task is a process; a step of the model runs a task from   *)
(* one real suspension point to the next (file I/O, a contended lock, the  *)
(* yield that hands a reply to the framework, asyncio.sleep).              *)
(*                                                                         *)
(* Part 2 - lexicon resolution (KeywordManager.get_lexicon_id) over the    *)
(* two override maps read by load_configs.                                 *)
(*                                                                         *)
(* Time is counted in clock ticks, TicksPerSec of them to a second, so     *)
(* that the truncation int(expire_time - current_time) is visible.         *)
(***************************************************************************)
EXTENDS Integers, FiniteSets, Sequences, TLC

\* ------------------------------------------------------------ bounds
TicksPerSec == 2
MaxTime == 4
DaySecs == 2

\* asyncio.sleep(1) of _save_cooling_data
QuietSecs == 1

\* cancelled save tasks that the event loop has not run yet
MaxCancelled == 2

QuietTicks == QuietSecs * TicksPerSec
DayTicks == DaySecs * TicksPerSec

Users == {"u1", "u2"}
Lexicons == {"g1", "g2"}
Handlers == {"h1", "h2"}

\* ------------------------------------------------------------ dicts
EmptyDict == <<>>

DictPut(d, k, v) == [x \in (DOMAIN d) \cup {k} |-> IF x = k THEN v ELSE d[x]]

DictDel(d, k) == [x \in (DOMAIN d) \ {k} |-> d[x]]

\* ------------------------------------------------------------ templates
\* A response template as the handlers see it: has_cd / cd are what
\* re.search(r'\((\d+)~\)', response) finds in the raw template, chains are
\* the values process_response can return for it ("none": a false {A OP B}
\* block, "empty": a chain with no component, "segments": a non-empty chain).
TplCool1 == [text |-> "hi(1~)", has_cd |-> TRUE, cd |-> 1, chains |-> {"segments"}]

TplCool2 == [text |-> "yo(2~)", has_cd |-> TRUE, cd |-> 2, chains |-> {"segments"}]

TplCondEmpty == [text |-> "{(1-2)>1}[(1~)]", has_cd |-> TRUE, cd |-> 1,
                 chains |-> {"none", "empty"}]

TplPlain == [text |-> "hello", has_cd |-> FALSE, cd |-> 0, chains |-> {"segments"}]

TplMidnight == [text |-> "bye(0~)", has_cd |-> TRUE, cd |-> 0, chains |-> {"segments"}]

\* The rules a message can match, per lexicon id: rule index -> its "r" list.
Work(lexicon_id) ==
    IF lexicon_id = "g1"
    THEN << <<TplCool1, TplCondEmpty>> >>
    ELSE << <<TplCool2, TplMidnight, TplPlain>>, <<TplCool1>> >>

\* item_index is enumerate()'s 0-based index
ItemIndexes(lexicon_id) == 0 .. (Len(Work(lexicon_id)) - 1)

Responses(lexicon_id, item_index) == Work(lexicon_id)[item_index + 1]

VARIABLES
    now,            \* time.time(), in ticks
    cooling_data,   \* CoolingManager._cooling_data: lexicon id -> {(user, index): expire}
    dirty,          \* CoolingManager._dirty
    lockHeld,       \* CoolingManager._lock is held across a suspension (by the save task)
    save_task,      \* CoolingManager._save_task and the locals of its coroutine
    cooling_files,  \* cooling/<lexicon_id>.json: lexicon id -> list of records
    old_tasks,      \* the save tasks _save_task no longer refers to and that have not ended
    pc,             \* where each message handler is suspended
    msg,            \* the handler's message: user_id, the matched rule, the chosen response
    cooling,        \* the handler's local `cooling` (0 is False)
    chain,          \* the handler's local `response_chain`
    seconds,        \* the handler's local `seconds`
    lastSet,        \* history: (lexicon, user, index) -> the last completed set_cooling:
                    \* the expire_time it wrote, the time of the call and the
                    \* keyword of the rule it was called for
    select_config,  \* KeywordManager.select_config (user_id -> lexicon id)
    switch_config,  \* KeywordManager.switch_config (group_id -> lexicon id)
    resolved,       \* the last get_lexicon_id call: its arguments and its result
    lexicons,       \* KeywordManager.lexicons: lexicon id -> the cached document's "work"
    lexicon_files,  \* lexicon/<lexicon_id>.json: lexicon id -> the file's content
    builtin_keywords, \* KeywordManager.builtin_keywords
    backups,        \* backups/<lexicon_id>_<timestamp>.json: the copies made
    ops,            \* the admin operations in flight and their locals
    faults,         \* whether file operations can fail in this run
    config,         \* the plugin configuration (mistake_turn_type)
    found,          \* the last search_keyword call: its arguments and its result
    select_file,    \* select.txt: its lines as load_configs reads them
    evaluated       \* the last call of a pure function: its arguments and its result

ledgerVars == <<cooling_data, dirty, lockHeld, save_task, cooling_files, old_tasks>>
handlerVars == <<pc, msg, cooling, chain, seconds>>
resolveVars == <<select_config, switch_config, resolved, select_file>>
storeVars == <<lexicons, lexicon_files, builtin_keywords, backups, ops, faults, config,
              found, evaluated>>
vars == <<now, cooling_data, dirty, lockHeld, save_task, cooling_files, old_tasks,
          pc, msg, cooling, chain, seconds, lastSet,
          select_config, switch_config, resolved,
          lexicons, lexicon_files, builtin_keywords, backups, ops, faults, config, found,
          select_file, evaluated>>

NoMsg == [user |-> "", lex |-> "", idx |-> 0, resp |-> 1]

NoTask == [st |-> "none", lex |-> "", wake |-> 0, current_time |-> 0, save_data |-> {}]

Key(m) == <<m.user, m.idx>>

\* the response random.choice took: the one the message carries, or the one
\* of the rule's "r" list in Work
Template(m) == IF "tpl" \in DOMAIN m THEN m.tpl ELSE Responses(m.lex, m.idx)[m.resp]

\* result["keyword"] of the search result, when the message carries it
Keyword(m) == IF "keyword" \in DOMAIN m THEN m.keyword ELSE <<>>

\* ------------------------------------------------------------ cooling files
\* save_data of _save_cooling_data: the dict as a list of records
ToRecords(table) ==
    {[user_id |-> k[1], item_index |-> k[2], expire_time |-> table[k]] : k \in DOMAIN table}

\* the loop of _load_cooling_data: the records back into a dict
FromRecords(data) ==
    [k \in {<<e.user_id, e.item_index>> : e \in data} |->
        (CHOOSE e \in data : e.user_id = k[1] /\ e.item_index = k[2]).expire_time]

\* valid_data with `>=` for `>`: an entry expiring at current_time is kept
ValidDataKeepsExpiring(table, current_time) ==
    [k \in {x \in DOMAIN table : table[x] >= current_time} |-> table[k]]

\* valid_data of _save_cooling_data
ValidData(table, current_time) ==
    [k \in {x \in DOMAIN table : table[x] > current_time} |-> table[k]]

\* ------------------------------------------------------------ CoolingManager
\* int(expire_time - current_time)
Remaining(expire_time, current_time) == (expire_time - current_time) \div TicksPerSec

\* check_cooling from `async with self._lock` to its return: the tables after
\* it, whether _dirty was set, and the value returned (0 is False).
check_cooling(data, user_id, lexicon_id, item_index, current_time) ==
    LET key == <<user_id, item_index>> IN
    IF lexicon_id \in DOMAIN data /\ key \in DOMAIN data[lexicon_id]
    THEN LET expire_time == data[lexicon_id][key] IN
         IF current_time >= expire_time
         THEN [data |-> [data EXCEPT ![lexicon_id] = DictDel(@, key)],
               touched |-> TRUE, ret |-> 0]
         ELSE [data |-> data, touched |-> FALSE,
               ret |-> IF Remaining(expire_time, current_time) > 0
                       THEN Remaining(expire_time, current_time) ELSE 0]
    ELSE [data |-> data, touched |-> FALSE, ret |-> 0]

\* the locked part of set_cooling: the tables after it
set_cooling(data, user_id, lexicon_id, item_index, secs, current_time) ==
    LET base == IF lexicon_id \in DOMAIN data THEN data
                ELSE DictPut(data, lexicon_id, EmptyDict)
    IN [base EXCEPT ![lexicon_id] =
            DictPut(@, <<user_id, item_index>>, current_time + secs * TicksPerSec)]

\* _schedule_save: the pending task, if any, is cancelled and replaced. A task
\* can only be cancelled while it sleeps or waits for the lock: set_cooling
\* reaches _schedule_save without suspending after it held the lock itself.
schedule_save(lexicon_id, current_time) ==
    [st |-> "sleeping", lex |-> lexicon_id, wake |-> current_time + QuietTicks,
     current_time |-> 0, save_data |-> {}]

\* Task.cancel() left out: the task goes on
CancelNever(task) == [st |-> task.st, cancelled |-> FALSE]

\* Task.cancel() of a task that is not done: the task is marked, and the
\* CancelledError is thrown into it when the event loop runs it next
Cancel(task) == [st |-> task.st, cancelled |-> TRUE]

\* the tasks that _schedule_save leaves behind: `if self._save_task and not
\* self._save_task.done(): self._save_task.cancel()`
Replaced(task, old) == IF task.st = "none" THEN old ELSE Append(old, Cancel(task))

\* ------------------------------------------------------------ the handlers
\* the notice condition with `> 1` for `> 0`
IsCoolingAboveOne(c) == c > 1

\* `isinstance(cooling, int) and cooling > 0`
IsCooling(c) == c > 0

\* `if response_chain is not None:` for `if response_chain:`
TruthyNotNone(c) == c # "none"

\* `if response_chain:`
Truthy(c) == c = "segments"

\* int(tomorrow_midnight.timestamp() - datetime.now().timestamp())
MidnightSeconds(current_time) ==
    ((((current_time \div DayTicks) + 1) * DayTicks) - current_time) \div TicksPerSec

\* `seconds` of the handler: the directive's number, 0 meaning until midnight
DirectiveSeconds(tpl, current_time) ==
    IF tpl.cd = 0 THEN MidnightSeconds(current_time) ELSE tpl.cd

\* The handler, its message being m, from the lock of check_cooling to its
\* next suspension: the cooldown notice is yielded, or the response is rendered
\* and, when the chain is not empty, yielded; otherwise the handler returns.
AfterCheck(h, m, data) ==
    LET r == check_cooling(data, m.user, m.lex, m.idx, now)
    IN /\ cooling_data' = r.data
       /\ dirty' = (dirty \/ r.touched)
       /\ cooling' = [cooling EXCEPT ![h] = r.ret]
       /\ IF IsCooling(r.ret)
          THEN /\ pc' = [pc EXCEPT ![h] = "notice"]
               /\ chain' = [chain EXCEPT ![h] = "unset"]
               /\ msg' = [msg EXCEPT ![h] = m]
          ELSE \E c \in Template(m).chains :
                  /\ chain' = [chain EXCEPT ![h] = c]
                  /\ pc' = [pc EXCEPT ![h] = IF Truthy(c) THEN "sent" ELSE "returned"]
                  /\ msg' = [msg EXCEPT ![h] = m]

\* `async with self._lock` of check_cooling, the tables being `data`: the
\* handler goes on at once when the lock is free and waits for it otherwise.
EnterLock(h, m, data) ==
    IF lockHeld
    THEN /\ cooling_data' = data
         /\ pc' = [pc EXCEPT ![h] = "lock"]
         /\ cooling' = [cooling EXCEPT ![h] = 0]
         /\ chain' = [chain EXCEPT ![h] = "unset"]
         /\ msg' = [msg EXCEPT ![h] = m]
         /\ UNCHANGED dirty
    ELSE AfterCheck(h, m, data)

\* check_cooling is entered for the message m and, on the first access to the
\* lexicon id, awaits _load_cooling_data.
Enter(h, m) ==
    /\ pc[h] = "idle"
    /\ seconds' = [seconds EXCEPT ![h] = 0]
    /\ IF m.lex \notin DOMAIN cooling_data
       THEN /\ pc' = [pc EXCEPT ![h] = "exists"]
            /\ msg' = [msg EXCEPT ![h] = m]
            /\ cooling' = [cooling EXCEPT ![h] = 0]
            /\ chain' = [chain EXCEPT ![h] = "unset"]
            /\ UNCHANGED <<cooling_data, dirty>>
       ELSE EnterLock(h, m, cooling_data)

\* A message of user_id arrives and search_keyword returns rule item_index of
\* lexicon_id with response number resp; check_cooling is entered and, on the
\* first access to the lexicon id, awaits _load_cooling_data.
Receive(h, user_id, lexicon_id, item_index, resp) ==
    LET m == [user |-> user_id, lex |-> lexicon_id, idx |-> item_index, resp |-> resp]
    IN /\ Enter(h, m)
       /\ UNCHANGED <<storeVars, now, lockHeld, save_task, cooling_files, old_tasks, lastSet,
                    resolveVars>>

\* _load_cooling_data, `await aos.path.exists(cooling_path)` returns: without a
\* file the table becomes {} and check_cooling goes on to its lock; with one
\* the file is opened and read.
LoadExists(h) ==
    /\ pc[h] = "exists"
    /\ IF msg[h].lex \in DOMAIN cooling_files
       THEN /\ pc' = [pc EXCEPT ![h] = "reading"]
            /\ UNCHANGED <<cooling_data, dirty, cooling, chain, msg>>
       ELSE EnterLock(h, msg[h], DictPut(cooling_data, msg[h].lex, EmptyDict))
    /\ UNCHANGED <<storeVars, now, lockHeld, save_task, cooling_files, old_tasks, seconds, lastSet,
                   resolveVars>>

\* _load_cooling_data, `await f.read()` returns: the table becomes the file's
\* records, whatever the table held, and check_cooling goes on to its lock.
LoadRead(h) ==
    /\ pc[h] = "reading"
    /\ EnterLock(h, msg[h],
                 DictPut(cooling_data, msg[h].lex, FromRecords(cooling_files[msg[h].lex])))
    /\ UNCHANGED <<storeVars, now, lockHeld, save_task, cooling_files, old_tasks, seconds, lastSet,
                   resolveVars>>

\* check_cooling is given the lock it waited for
CheckLocked(h) ==
    /\ pc[h] = "lock"
    /\ ~lockHeld
    /\ AfterCheck(h, msg[h], cooling_data)
    /\ UNCHANGED <<storeVars, now, lockHeld, save_task, cooling_files, old_tasks, seconds, lastSet,
                   resolveVars>>

\* the framework has sent the cooldown notice and the handler returns
NoticeSent(h) ==
    /\ pc[h] = "notice"
    /\ pc' = [pc EXCEPT ![h] = "idle"]
    /\ cooling' = [cooling EXCEPT ![h] = 0]
    /\ msg' = [msg EXCEPT ![h] = NoMsg]
    /\ UNCHANGED <<storeVars, now, ledgerVars, chain, seconds, lastSet, resolveVars>>

\* the handler ended without a reply and the framework drops its generator
Returned(h) ==
    /\ pc[h] = "returned"
    /\ pc' = [pc EXCEPT ![h] = "idle"]
    /\ msg' = [msg EXCEPT ![h] = NoMsg]
    /\ chain' = [chain EXCEPT ![h] = "unset"]
    /\ UNCHANGED <<storeVars, now, ledgerVars, cooling, seconds, lastSet, resolveVars>>

\* set_cooling under its lock, then _schedule_save
DoSet(h, secs) ==
    LET m == msg[h] IN
    /\ cooling_data' = set_cooling(cooling_data, m.user, m.lex, m.idx, secs, now)
    /\ dirty' = TRUE
    /\ save_task.st # "none" => Len(old_tasks) < MaxCancelled
    /\ old_tasks' = Replaced(save_task, old_tasks)
    /\ save_task' = schedule_save(m.lex, now)
    /\ lastSet' = DictPut(lastSet, <<m.lex, m.user, m.idx>>,
                          [expire |-> now + secs * TicksPerSec, at |-> now,
                           keyword |-> Keyword(m)])
    /\ pc' = [pc EXCEPT ![h] = "idle"]
    /\ msg' = [msg EXCEPT ![h] = NoMsg]
    /\ chain' = [chain EXCEPT ![h] = "unset"]
    /\ seconds' = [seconds EXCEPT ![h] = 0]

\* The framework has sent the reply and resumes the handler after its yield:
\* without a directive in the raw response the handler returns, with one
\* set_cooling is called and goes on at once when the lock is free.
Resume(h) ==
    /\ pc[h] = "sent"
    /\ LET tpl == Template(msg[h]) IN
       IF ~tpl.has_cd
       THEN /\ pc' = [pc EXCEPT ![h] = "idle"]
            /\ msg' = [msg EXCEPT ![h] = NoMsg]
            /\ chain' = [chain EXCEPT ![h] = "unset"]
            /\ UNCHANGED <<cooling_data, dirty, save_task, old_tasks, seconds, lastSet>>
       ELSE IF lockHeld
            THEN /\ pc' = [pc EXCEPT ![h] = "set"]
                 /\ seconds' = [seconds EXCEPT ![h] = DirectiveSeconds(tpl, now)]
                 /\ UNCHANGED <<cooling_data, dirty, save_task, old_tasks, lastSet, msg, chain>>
            ELSE DoSet(h, DirectiveSeconds(tpl, now))
    /\ UNCHANGED <<storeVars, now, lockHeld, cooling_files, cooling, resolveVars>>

\* set_cooling is given the lock it waited for
SetLocked(h) ==
    /\ pc[h] = "set"
    /\ ~lockHeld
    /\ DoSet(h, seconds[h])
    /\ UNCHANGED <<storeVars, now, lockHeld, cooling_files, cooling, resolveVars>>

\* ------------------------------------------------------------ the save task
\* asyncio.sleep(1) is over and no one holds the lock
SaveReady == save_task.st = "sleeping" /\ now >= save_task.wake /\ ~lockHeld

\* _save_cooling_data from the end of its sleep to its first file operation:
\* under the lock it returns when nothing is dirty or the table is unknown,
\* otherwise it prunes the table to valid_data and keeps the lock while it
\* writes.
SaveFilter ==
    /\ SaveReady
    /\ IF ~dirty \/ save_task.lex \notin DOMAIN cooling_data
       THEN /\ save_task' = NoTask
            /\ UNCHANGED <<cooling_data, lockHeld>>
       ELSE LET valid_data == ValidData(cooling_data[save_task.lex], now) IN
            /\ cooling_data' = [cooling_data EXCEPT ![save_task.lex] = valid_data]
            /\ save_task' = [save_task EXCEPT !.st = "writing", !.current_time = now,
                                              !.save_data = ToRecords(valid_data)]
            /\ lockHeld' = TRUE
    /\ UNCHANGED <<storeVars, now, dirty, cooling_files, old_tasks, handlerVars, lastSet,
                   resolveVars>>

\* the file is written, _dirty is cleared and the lock released
SaveWrite ==
    /\ save_task.st = "writing"
    /\ cooling_files' = DictPut(cooling_files, save_task.lex, save_task.save_data)
    /\ dirty' = FALSE
    /\ lockHeld' = FALSE
    /\ save_task' = NoTask
    /\ UNCHANGED <<storeVars, now, cooling_data, old_tasks, handlerVars, lastSet, resolveVars>>

\* The event loop runs a cancelled task: the CancelledError is thrown into its
\* await and the task ends. `async with self._lock` releases the lock on the
\* way out when the task holds it.
CancelledEnds ==
    /\ old_tasks # <<>>
    /\ old_tasks[1].cancelled
    /\ old_tasks' = Tail(old_tasks)
    /\ lockHeld' = (lockHeld /\ old_tasks[1].st # "writing")
    /\ UNCHANGED <<storeVars, now, cooling_data, dirty, save_task, cooling_files, handlerVars,
                   lastSet, resolveVars>>

\* Time passes. A task whose sleep is over runs before the clock moves on.
Tick ==
    /\ now < MaxTime
    /\ ~SaveReady
    /\ now' = now + 1
    /\ UNCHANGED <<storeVars, ledgerVars, handlerVars, lastSet, resolveVars>>

\* ------------------------------------------------------------ lexicon resolution
MaxLines == 2

GroupIds == {"", "g1", "g2"}
LexiconNames == {"", "lexA", "lexB"}

\* One line of switch.txt / select.txt after line.strip(): with a '=' it splits
\* into k.strip() and v.strip() (v may be empty), without one it is skipped.
ConfigLines(keys) ==
    [eq : {TRUE}, k : keys, v : LexiconNames] \cup [eq : {FALSE}, k : {"#"}, v : {""}]

RECURSIVE BoundedSeq(_, _)
BoundedSeq(S, n) ==
    IF n = 0 THEN {<<>>}
    ELSE BoundedSeq(S, n - 1) \cup
         {Append(q, x) : q \in {t \in BoundedSeq(S, n - 1) : Len(t) = n - 1}, x \in S}

\* load_configs: the dict the lines of one file leave, a later line replacing
\* an earlier one of the same key
RECURSIVE load_configs(_)
load_configs(lines) ==
    IF lines = <<>> THEN EmptyDict
    ELSE LET n == Len(lines)
             line == lines[n]
             d == load_configs(SubSeq(lines, 1, n - 1))
         IN IF line.eq THEN DictPut(d, line.k, line.v) ELSE d

\* get_lexicon_id with its first two steps exchanged: the group's switch first
get_lexicon_id_group_first(sel, sw, group_id, user_id) ==
    IF group_id # "" /\ group_id \in DOMAIN sw /\ sw[group_id] # ""
    THEN sw[group_id]
    ELSE IF user_id # "" /\ user_id \in DOMAIN sel
         THEN sel[user_id]
         ELSE IF group_id = "" THEN "private_" \o user_id ELSE group_id

get_lexicon_id(sel, sw, group_id, user_id) ==
    IF user_id # "" /\ user_id \in DOMAIN sel
    THEN sel[user_id]
    ELSE IF group_id # "" /\ group_id \in DOMAIN sw /\ sw[group_id] # ""
         THEN sw[group_id]
         ELSE IF group_id = "" THEN "private_" \o user_id ELSE group_id

NoCall == [called |-> FALSE, group_id |-> "", user_id |-> "",
           has_user |-> FALSE, user_ov |-> "", has_group |-> FALSE, group_ov |-> "",
           id |-> ""]

\* A handler calls get_lexicon_id(group_id, user_id). The record keeps the
\* arguments, the two override entries as they were at the call, and the result.
Resolve(group_id, user_id) ==
    /\ resolved' = [called |-> TRUE, group_id |-> group_id, user_id |-> user_id,
                    has_user |-> user_id \in DOMAIN select_config,
                    user_ov |-> IF user_id \in DOMAIN select_config
                                THEN select_config[user_id] ELSE "",
                    has_group |-> group_id \in DOMAIN switch_config,
                    group_ov |-> IF group_id \in DOMAIN switch_config
                                 THEN switch_config[group_id] ELSE "",
                    id |-> get_lexicon_id(select_config, switch_config, group_id, user_id)]
    /\ UNCHANGED <<storeVars, now, ledgerVars, handlerVars, lastSet, select_config, switch_config,
                   select_file>>

\* str.splitlines of a lexicon name; one name of the runs holds a line break
splitlines(name) == IF name = "lexA\nlexB" THEN <<"lexA", "lexB">> ELSE <<name>>

\* the lines load_configs reads back from the text f"{k}={v}": the first has
\* the '=', a further line of the value has none
FormatEntry(k, v) ==
    LET parts == splitlines(v)
    IN <<[eq |-> TRUE, k |-> k, v |-> parts[1]]>>
       \o [i \in 1 .. Len(parts) - 1 |-> [eq |-> FALSE, k |-> "#", v |-> ""]]

\* '\n'.join(f"{k}={v}" for k, v in select_config.items()) as select.txt then
\* holds it. No two entries share a key, so load_configs reads the same dict
\* from any order of the entries.
RECURSIVE SelectLines(_)
SelectLines(sel) ==
    IF DOMAIN sel = {} THEN <<>>
    ELSE LET k == CHOOSE x \in DOMAIN sel : TRUE
         IN FormatEntry(k, sel[k]) \o SelectLines([x \in DOMAIN sel \ {k} |-> sel[x]])

\* handle_admin_command, "切换词库 <name>" with a non-empty name, while no other
\* coroutine runs: the entry is set, then select.txt is opened for writing and
\* written. A failed open leaves the file as it was, a failed write leaves
\* it empty.
SwitchLexicon(user_id, lexicon_name) ==
    /\ lexicon_name # ""
    /\ select_config' = DictPut(select_config, user_id, lexicon_name)
    /\ \E outcome \in (IF faults THEN {"ok", "open fails", "write fails"} ELSE {"ok"}) :
          select_file' = IF outcome = "ok" THEN SelectLines(select_config')
                         ELSE IF outcome = "open fails" THEN select_file
                         ELSE <<>>
    /\ UNCHANGED <<storeVars, now, ledgerVars, handlerVars, lastSet, switch_config, resolved>>

\* ------------------------------------------------------------ matching
\* Strings that are matched are sequences of one-character strings.

\* Python's `k in t` for strings
IsSubstring(k, t) ==
    \E i \in 0 .. (Len(t) - Len(k)) : SubSeq(t, i + 1, i + Len(k)) = k

Digits == {"0", "1", "2", "3", "4", "5", "6", "7", "8", "9"}

\* the characters of the model's alphabet that re.escape() puts a backslash before
Escaped == {".", "[", "]", "(", ")", "?"}

\* the length of the run of digits of p that starts at position i
RECURSIVE DigitRun(_, _)
DigitRun(p, i) ==
    IF i <= Len(p) /\ p[i] \in Digits THEN 1 + DigitRun(p, i + 1) ELSE 0

\* int() of a string of digits
RECURSIVE IntOf(_)
IntOf(ds) ==
    IF ds = <<>> THEN 0
    ELSE 10 * IntOf(SubSeq(ds, 1, Len(ds) - 1))
         + (CHOOSE n \in 0 .. 9 : ToString(n) = ds[Len(ds)])

\* safe_pattern of match_wildcard as a list of tokens: re.escape(pattern) with
\* every `\[n\<any char>digits\]` replaced by the group (.+?). After the
\* escape, the character that follows "[n" has a backslash before it exactly
\* when it is in Escaped.
RECURSIVE Compile(_)
Compile(p) ==
    IF p = <<>> THEN <<>>
    ELSE LET n == IF /\ Len(p) >= 5
                     /\ p[1] = "[" /\ p[2] = "n" /\ p[3] \in Escaped
                  THEN DigitRun(p, 4) ELSE 0
         IN IF n > 0 /\ Len(p) >= 4 + n /\ p[4 + n] = "]"
            THEN <<[ph |-> TRUE, ch |-> ""]>> \o Compile(SubSeq(p, 5 + n, Len(p)))
            ELSE <<[ph |-> FALSE, ch |-> p[1]]>> \o Compile(Tail(p))

\* re.match("^" + safe_pattern + "$", text): whether it matches, and the groups
\* of the match the backtracking finds first, each (.+?) taking the shortest
\* capture the rest of the pattern allows
RECURSIVE MatchTokens(_, _)
MatchTokens(toks, t) ==
    IF toks = <<>> THEN [ok |-> t = <<>>, groups |-> <<>>]
    ELSE IF ~toks[1].ph
    THEN IF t # <<>> /\ t[1] = toks[1].ch
         THEN MatchTokens(Tail(toks), Tail(t))
         ELSE [ok |-> FALSE, groups |-> <<>>]
    ELSE LET good == {n \in 1 .. Len(t) :
                         MatchTokens(Tail(toks), SubSeq(t, n + 1, Len(t))).ok}
         IN IF good = {} THEN [ok |-> FALSE, groups |-> <<>>]
            ELSE LET n == CHOOSE x \in good : \A y \in good : x <= y
                     rest == MatchTokens(Tail(toks), SubSeq(t, n + 1, Len(t)))
                 IN [ok |-> TRUE, groups |-> <<SubSeq(t, 1, n)>> \o rest.groups]

\* re.findall(r'\[n\.(\d+)\]', pattern), as numbers
RECURSIVE Placeholders(_)
Placeholders(p) ==
    IF p = <<>> THEN <<>>
    ELSE LET n == IF Len(p) >= 5 /\ p[1] = "[" /\ p[2] = "n" /\ p[3] = "."
                  THEN DigitRun(p, 4) ELSE 0
         IN IF n > 0 /\ Len(p) >= 4 + n /\ p[4 + n] = "]"
            THEN <<IntOf(SubSeq(p, 4, 3 + n))>> \o Placeholders(SubSeq(p, 5 + n, Len(p)))
            ELSE Placeholders(Tail(p))

\* the loop that fills `result`: the idx-th placeholder's group goes to slot
\* ph_idx when ph_idx < 6 and the match has that many groups
RECURSIVE FillSlots(_, _, _, _)
FillSlots(result, phs, groups, idx) ==
    IF idx > Len(phs) THEN result
    ELSE FillSlots(IF phs[idx] < 6 /\ idx <= Len(groups)
                   THEN [result EXCEPT ![phs[idx]] = groups[idx]]
                   ELSE result,
                   phs, groups, idx + 1)

\* match_wildcard: None (matched FALSE) or the six slots n.0 .. n.5
match_wildcard(pattern, text) ==
    LET m == MatchTokens(Compile(pattern), text)
    IN IF m.ok
       THEN [matched |-> TRUE,
             result |-> FillSlots([k \in 0 .. 5 |-> <<>>], Placeholders(pattern), m.groups, 1)]
       ELSE [matched |-> FALSE, result |-> [k \in 0 .. 5 |-> <<>>]]

\* ------------------------------------------------------------ lexicon store
\* A document is its "work" list. A rule is the one-key dict
\* {key: {"r": [...], "s": mode}}; `shared` is 0 when "r" is a list of its own
\* and i when it is the very list object builtin_keywords[i]["responses"]
\* (keyword_builtin_import puts that object into the rule).
Rule(key, r, mode) == [key |-> key, s |-> mode, r |-> r, shared |-> 0]

\* value["r"] of a rule
Resp(bk, rule) == IF rule.shared = 0 THEN rule.r ELSE bk[rule.shared].responses

\* json.dumps of a document followed by json.loads: every list is a copy
Dumped(bk, work) ==
    [i \in 1 .. Len(work) |-> Rule(work[i].key, Resp(bk, work[i]), work[i].s)]

\* a lexicon file: parsable with a "work" list, or not parsable
File(work) == [ok |-> TRUE, work |-> work]
BadFile == [ok |-> FALSE, work |-> <<>>]

\* KeywordManager.builtin_keywords, cut down to one keyword with two responses
BuiltinKeywords ==
    << [keyword |-> <<"a">>, responses |-> <<"r1", "r2">>, mode |-> 1] >>

\* builtin_lexicon["work"] of _create_builtin_lexicon, as written to the file
BuiltinWork(bk) ==
    [i \in 1 .. Len(bk) |-> Rule(bk[i].keyword, bk[i].responses, bk[i].mode)]

\* the visibility test left out
HiddenNever(mode, is_admin) == FALSE

\* `if value.get("s") == 10 and not is_admin: continue`
Hidden(mode, is_admin) == mode = 10 /\ ~is_admin

\* the scan of one document by search_keyword from the rule at position i on:
\* the first hit, none, or the exception that random.choice raises on an empty
\* "r" (search_keyword then goes on with the next document)
RECURSIVE ScanDoc(_, _, _, _, _)
ScanDoc(bk, work, text, is_admin, i) ==
    IF i > Len(work) THEN [kind |-> "none", type |-> "", item_index |-> 0, keyword |-> <<>>]
    ELSE LET key == work[i].key
             mode == work[i].s
             hit(type) == IF Resp(bk, work[i]) = <<>>
                          THEN [kind |-> "error", type |-> "", item_index |-> 0,
                                keyword |-> <<>>]
                          ELSE [kind |-> "hit", type |-> type, item_index |-> i - 1,
                                keyword |-> key]
         IN IF Hidden(mode, is_admin) THEN ScanDoc(bk, work, text, is_admin, i + 1)
            ELSE IF IsSubstring(<<"[", "n", ".">>, key) /\ match_wildcard(key, text).matched
            THEN hit("wildcard")
            ELSE IF mode = 1 /\ key = text THEN hit("exact")
            ELSE IF mode = 0 /\ IsSubstring(key, text) THEN hit("fuzzy")
            ELSE ScanDoc(bk, work, text, is_admin, i + 1)

\* lexicon_ids of search_keyword
SearchOrder(sel, sw, group_id, user_id) ==
    LET current_lexicon_id == get_lexicon_id(sel, sw, group_id, user_id)
        private_id == "private_" \o user_id
    IN <<"builtin_default", current_lexicon_id>>
       \o (IF group_id # "" /\ current_lexicon_id # group_id THEN <<group_id>> ELSE <<>>)
       \o (IF group_id = "" /\ current_lexicon_id # private_id THEN <<private_id>> ELSE <<>>)

\* what get_lexicon returns for an id when nothing else runs during the call:
\* the cached document, else the file's, else an empty one
DocOf(cache, files, lid) ==
    IF lid \in DOMAIN cache THEN cache[lid]
    ELSE IF lid \in DOMAIN files /\ files[lid].ok THEN files[lid].work
    ELSE <<>>

NotFound == [found |-> FALSE, type |-> "", lexicon_id |-> "", item_index |-> 0,
             keyword |-> <<>>, visited |-> 0]

\* the loop of search_keyword over lexicon_ids from position n on; `visited`
\* is the number of documents it asked get_lexicon for
RECURSIVE SearchFrom(_, _, _, _, _, _, _)
SearchFrom(bk, cache, files, ids, text, is_admin, n) ==
    IF n > Len(ids) THEN [NotFound EXCEPT !.visited = Len(ids)]
    ELSE LET m == ScanDoc(bk, DocOf(cache, files, ids[n]), text, is_admin, 1)
         IN IF m.kind = "hit"
            THEN [found |-> TRUE, type |-> m.type, lexicon_id |-> ids[n],
                  item_index |-> m.item_index, keyword |-> m.keyword, visited |-> n]
            ELSE SearchFrom(bk, cache, files, ids, text, is_admin, n + 1)

search_keyword(bk, cache, files, sel, sw, text, group_id, user_id, is_admin) ==
    SearchFrom(bk, cache, files, SearchOrder(sel, sw, group_id, user_id), text, is_admin, 1)

\* nothing evaluated yet
NoEval == [fn |-> ""]

NoSearch == [called |-> FALSE, text |-> <<>>, group_id |-> "", user_id |-> "",
             is_admin |-> FALSE, ids |-> <<>>, result |-> NotFound]

\* the cache after get_lexicon was called for each id of `seen`
CacheAfter(cache, files, seen) ==
    [lid \in DOMAIN cache \cup seen |-> DocOf(cache, files, lid)]

\* the files after get_lexicon was called for each id of `seen`: a missing
\* file is created with an empty document
FilesAfter(cache, files, seen) ==
    [lid \in DOMAIN files \cup (seen \ DOMAIN cache) |->
        IF lid \in DOMAIN files THEN files[lid] ELSE File(<<>>)]

\* One search_keyword call while no other coroutine runs: the documents it
\* visits are loaded into the cache on the way.
Search(text, group_id, user_id, is_admin) ==
    LET ids == SearchOrder(select_config, switch_config, group_id, user_id)
        res == search_keyword(builtin_keywords, lexicons, lexicon_files,
                              select_config, switch_config,
                              text, group_id, user_id, is_admin)
        seen == {ids[k] : k \in 1 .. res.visited}
    IN /\ \A o \in DOMAIN ops : ops[o].pc = "idle"
       /\ found' = [called |-> TRUE, text |-> text, group_id |-> group_id,
                    user_id |-> user_id, is_admin |-> is_admin, ids |-> ids,
                    result |-> res]
       /\ lexicons' = CacheAfter(lexicons, lexicon_files, seen)
       /\ lexicon_files' = FilesAfter(lexicons, lexicon_files, seen)
       /\ UNCHANGED <<now, ledgerVars, handlerVars, lastSet, resolveVars,
                      builtin_keywords, backups, ops, faults, config, evaluated>>

\* ------------------------------------------------------------ editing a document
\* `keyword in item` for some item of the work list
HasKey(work, keyword) == \E i \in 1 .. Len(work) : work[i].key = keyword

\* the position of the first item with the keyword
FirstKey(work, keyword) ==
    CHOOSE i \in 1 .. Len(work) :
        work[i].key = keyword /\ \A j \in 1 .. (i - 1) : work[j].key # keyword

\* a list without its element at position i
RemoveAt(q, i) == SubSeq(q, 1, i - 1) \o SubSeq(q, i + 1, Len(q))

\* the replacements of add_keyword under mistake_turn_type, for one character.
\* A full-width character is written "fw" followed by its half-width form:
\* "fw(" is the character U+FF08, "fw[" is U+3010, and so on.
HalfWidth(c) ==
    CASE c = "fw[" -> "["
      [] c = "fw]" -> "]"
      [] c = "fw(" -> "("
      [] c = "fw)" -> ")"
      [] c = "fw{" -> "{"
      [] c = "fw}" -> "}"
      [] c = "fw:" -> ":"
      [] OTHER -> c

mistake_turn(keyword) == [i \in 1 .. Len(keyword) |-> HalfWidth(keyword[i])]

\* add_keyword without its test for an existing keyword
add_keyword_unchecked(work, mistake_turn_type, keyword, response, mode) ==
    LET kw == IF mistake_turn_type THEN mistake_turn(keyword) ELSE keyword
    IN [ok |-> TRUE, work |-> Append(work, Rule(kw, <<response>>, mode))]

\* add_keyword on the document's work list: (success, work)
add_keyword(work, mistake_turn_type, keyword, response, mode) ==
    IF HasKey(work, keyword) THEN [ok |-> FALSE, work |-> work]
    ELSE LET kw == IF mistake_turn_type THEN mistake_turn(keyword) ELSE keyword
         IN [ok |-> TRUE, work |-> Append(work, Rule(kw, <<response>>, mode))]

\* remove_keyword: (success, work)
remove_keyword(work, keyword) ==
    LET new_work == SelectSeq(work, LAMBDA item : item.key # keyword)
    IN [ok |-> Len(new_work) # Len(work), work |-> new_work]

\* add_response: (success, work, builtin_keywords). The append is made in
\* place, so a list shared with builtin_keywords changes there.
add_response(bk, work, keyword, response) ==
    IF ~HasKey(work, keyword) THEN [ok |-> FALSE, work |-> work, bk |-> bk]
    ELSE LET i == FirstKey(work, keyword)
             r == Append(Resp(bk, work[i]), response)
         IN IF work[i].shared = 0
            THEN [ok |-> TRUE, work |-> [work EXCEPT ![i].r = r], bk |-> bk]
            ELSE [ok |-> TRUE, work |-> work,
                  bk |-> [bk EXCEPT ![work[i].shared].responses = r]]

\* list.remove(x): without the first element equal to x
RemoveFirst(q, x) ==
    LET i == CHOOSE k \in 1 .. Len(q) : q[k] = x /\ \A j \in 1 .. (k - 1) : q[j] # x
    IN RemoveAt(q, i)

\* remove_response: (success, work, builtin_keywords). The loop takes the first
\* item that has the keyword and the response; lexicon["work"].remove(item)
\* takes out the first item equal to the emptied one.
remove_response(bk, work, keyword, response) ==
    LET hits == {i \in 1 .. Len(work) :
                    /\ work[i].key = keyword
                    /\ \E k \in 1 .. Len(Resp(bk, work[i])) : Resp(bk, work[i])[k] = response}
    IN IF hits = {} THEN [ok |-> FALSE, work |-> work, bk |-> bk]
       ELSE LET i == CHOOSE x \in hits : \A y \in hits : x <= y
                r == RemoveFirst(Resp(bk, work[i]), response)
                bk1 == IF work[i].shared = 0 THEN bk
                       ELSE [bk EXCEPT ![work[i].shared].responses = r]
                work1 == IF work[i].shared = 0 THEN [work EXCEPT ![i].r = r] ELSE work
                same(j) == /\ work1[j].key = keyword
                           /\ work1[j].s = work1[i].s
                           /\ Resp(bk1, work1[j]) = <<>>
                first == CHOOSE j \in 1 .. i : same(j) /\ \A k \in 1 .. (j - 1) : ~same(k)
            IN [ok |-> TRUE,
                work |-> IF r = <<>> THEN RemoveAt(work1, first) ELSE work1,
                bk |-> bk1]

\* the import loop of keyword_builtin_import from builtin keyword i on: a
\* keyword the target lacks is appended with the builtin's own responses list
RECURSIVE builtin_import(_, _, _)
builtin_import(bk, work, i) ==
    IF i > Len(bk) THEN work
    ELSE builtin_import(bk,
                        IF HasKey(work, bk[i].keyword) THEN work
                        ELSE Append(work, [key |-> bk[i].keyword, s |-> bk[i].mode,
                                           r |-> <<>>, shared |-> i]),
                        i + 1)

\* list_keywords, each line as (number, key, mode, number of responses)
list_keywords(bk, work, keyword_filter) ==
    LET shown == {i \in 1 .. Len(work) :
                     keyword_filter = <<>> \/ IsSubstring(keyword_filter, work[i].key)}
        line(i) == [idx |-> i, key |-> work[i].key, s |-> work[i].s,
                    n |-> Len(Resp(bk, work[i]))]
    IN [k \in 1 .. Cardinality(shown) |->
           line(CHOOSE i \in shown : Cardinality({j \in shown : j <= i}) = k)]

\* ------------------------------------------------------------ admin operations
\* Each operation is a coroutine; a step runs it from one suspension (an
\* awaited file operation) to the next. `aliased` says that the document
\* object the coroutine holds is the one in the cache; when the cache entry is
\* replaced by another object, `own` keeps the object the coroutine holds.
\* A save is two steps: aiofiles.open(path, 'w') leaves the file empty, and
\* json.dumps of the object as it is then, with the write and the close,
\* fills it.
Ops == {"o1", "o2"}

NoOp == [pc |-> "idle", kind |-> "", lexicon_id |-> "", keyword |-> <<>>,
         response |-> "", mode |-> 0, own |-> <<>>, aliased |-> FALSE,
         got |-> "", ret |-> "", save |-> ""]

\* the operation has returned: the record keeps its arguments, what get_lexicon
\* did, what the helper returned and how its save_lexicon call ended
Done(rec, got, ret, save) ==
    [rec EXCEPT !.pc = "idle", !.own = <<>>, !.aliased = FALSE,
                !.got = got, !.ret = ret, !.save = save]

\* the coroutines suspended in a save of the cached object of lexicon id `lid`
\* keep that object when the cache entry is about to be replaced
Orphan(others, o, lid) ==
    [p \in DOMAIN others |->
        IF /\ p # o
           /\ others[p].pc \in {"open", "write"}
           /\ others[p].lexicon_id = lid
           /\ others[p].aliased
        THEN [others[p] EXCEPT !.own = lexicons[lid], !.aliased = FALSE]
        ELSE others[p]]

\* get_lexicon without its except branch: the exception reaches the caller
get_lexicon_raises(cache, lid) == [raised |-> TRUE, cache |-> cache]

\* the `except Exception` branch of get_lexicon: an empty document is cached
\* and returned
get_lexicon_except(cache, lid) == [raised |-> FALSE, cache |-> DictPut(cache, lid, <<>>)]

\* save_lexicon up to its first suspension: the cache takes the object
SaveStart(o, rec, others, cache, work, got) ==
    /\ lexicons' = DictPut(cache, rec.lexicon_id, work)
    /\ ops' = [others EXCEPT ![o] = [rec EXCEPT !.pc = "open", !.aliased = TRUE,
                                                !.own = <<>>, !.got = got, !.ret = "ok"]]

\* The helper after get_lexicon has returned the cached document, up to its
\* return or to the suspension of its save_lexicon call.
Finish(o, rec, others, cache, got) ==
    LET lid == rec.lexicon_id
        work == cache[lid]
        fails == /\ lexicons' = cache
                 /\ ops' = [others EXCEPT ![o] = Done(rec, got, "fail", "")]
                 /\ UNCHANGED builtin_keywords
    IN CASE rec.kind = "list" ->
              /\ lexicons' = cache
              /\ ops' = [others EXCEPT ![o] = Done(rec, got, "ok", "")]
              /\ UNCHANGED builtin_keywords
         [] rec.kind = "add" ->
              LET res == add_keyword(work, config.mistake_turn_type,
                                     rec.keyword, rec.response, rec.mode)
              IN IF res.ok
                 THEN /\ SaveStart(o, rec, others, cache, res.work, got)
                      /\ UNCHANGED builtin_keywords
                 ELSE fails
         [] rec.kind = "remove" ->
              LET res == remove_keyword(work, rec.keyword)
              IN IF res.ok
                 THEN /\ SaveStart(o, rec, others, cache, res.work, got)
                      /\ UNCHANGED builtin_keywords
                 ELSE fails
         [] rec.kind = "add_response" ->
              LET res == add_response(builtin_keywords, work, rec.keyword, rec.response)
              IN IF res.ok
                 THEN /\ SaveStart(o, rec, others, cache, res.work, got)
                      /\ builtin_keywords' = res.bk
                 ELSE fails
         [] rec.kind = "remove_response" ->
              LET res == remove_response(builtin_keywords, work, rec.keyword, rec.response)
              IN IF res.ok
                 THEN /\ SaveStart(o, rec, others, cache, res.work, got)
                      /\ builtin_keywords' = res.bk
                 ELSE fails
         [] rec.kind = "import" ->
              /\ SaveStart(o, rec, others, cache,
                           builtin_import(builtin_keywords, work, 1), got)
              /\ UNCHANGED builtin_keywords

opFrame == <<now, ledgerVars, handlerVars, lastSet, resolveVars, backups, faults,
             config, found, evaluated>>

\* A helper is called: get_lexicon_id, then get_lexicon, which returns at once
\* when the id is cached and else suspends in aos.path.exists.
Begin(o, rec) ==
    /\ ops[o].pc = "idle"
    /\ IF rec.lexicon_id \in DOMAIN lexicons
       THEN /\ Finish(o, rec, ops, lexicons, "cached")
            /\ UNCHANGED lexicon_files
       ELSE /\ ops' = [ops EXCEPT ![o] = [rec EXCEPT !.pc = "exists"]]
            /\ UNCHANGED <<lexicons, lexicon_files, builtin_keywords>>
    /\ UNCHANGED opFrame

Call(kind, lexicon_id, keyword, response, mode) ==
    [NoOp EXCEPT !.kind = kind, !.lexicon_id = lexicon_id, !.keyword = keyword,
                 !.response = response, !.mode = mode]

CurrentId(group_id, user_id) == get_lexicon_id(select_config, switch_config, group_id, user_id)

AddKeyword(o, group_id, user_id, keyword, response, mode) ==
    Begin(o, Call("add", CurrentId(group_id, user_id), keyword, response, mode))

RemoveKeyword(o, group_id, user_id, keyword) ==
    Begin(o, Call("remove", CurrentId(group_id, user_id), keyword, "", 0))

AddResponse(o, group_id, user_id, keyword, response) ==
    Begin(o, Call("add_response", CurrentId(group_id, user_id), keyword, response, 0))

RemoveResponse(o, group_id, user_id, keyword, response) ==
    Begin(o, Call("remove_response", CurrentId(group_id, user_id), keyword, response, 0))

ListKeywords(o, group_id, user_id) ==
    Begin(o, Call("list", CurrentId(group_id, user_id), <<>>, "", 0))

\* keyword_builtin_import with or without a target lexicon id
BuiltinImport(o, group_id, user_id, target_lexicon) ==
    Begin(o, Call("import",
                  IF target_lexicon = "" THEN CurrentId(group_id, user_id)
                  ELSE target_lexicon,
                  <<>>, "", 0))

\* handle_admin_command, "词库清空": save_lexicon(lexicon_id, {"work": []})
ClearLexicon(o, group_id, user_id) ==
    LET rec == Call("clear", CurrentId(group_id, user_id), <<>>, "", 0)
    IN /\ ops[o].pc = "idle"
       /\ SaveStart(o, rec, Orphan(ops, o, rec.lexicon_id), lexicons, <<>>, "")
       /\ UNCHANGED <<lexicon_files, builtin_keywords>>
       /\ UNCHANGED opFrame

\* get_lexicon after aos.path.exists has answered
LoadExists_lexicon(o) ==
    /\ ops[o].pc = "exists"
    /\ ops' = [ops EXCEPT ![o].pc = IF ops[o].lexicon_id \in DOMAIN lexicon_files
                                    THEN "read" ELSE "create"]
    /\ UNCHANGED <<lexicons, lexicon_files, builtin_keywords>>
    /\ UNCHANGED opFrame

Outcomes == IF faults THEN {"ok", "fails"} ELSE {"ok"}

\* what get_lexicon leaves when its try block ended with the cache `cache`,
\* or in its except branch
Loaded(o, outcome, cache, got) ==
    LET rec == ops[o]
        lid == rec.lexicon_id
        others == IF lid \in DOMAIN lexicons THEN Orphan(ops, o, lid) ELSE ops
        exc == get_lexicon_except(lexicons, lid)
    IN IF outcome = "ok" THEN Finish(o, rec, others, cache, got)
       ELSE IF exc.raised
       THEN /\ lexicons' = exc.cache
            /\ ops' = [ops EXCEPT ![o] = Done(rec, "raised", "", "")]
            /\ UNCHANGED builtin_keywords
       ELSE Finish(o, rec, others, exc.cache, "failed")

\* get_lexicon, the file exists: open, read and json.loads, then the cache
\* takes the parsed document
LoadRead_lexicon(o) ==
    /\ ops[o].pc = "read"
    /\ \E outcome \in Outcomes :
          LET lid == ops[o].lexicon_id
              file == lexicon_files[lid]
          IN Loaded(o, IF file.ok THEN outcome ELSE "fails",
                    DictPut(lexicons, lid, file.work), "read")
    /\ UNCHANGED lexicon_files
    /\ UNCHANGED opFrame

\* get_lexicon, the file is missing: an empty document is written and cached.
\* A failure leaves no file, or the empty file that the open created.
LoadCreate_lexicon(o) ==
    /\ ops[o].pc = "create"
    /\ \E outcome \in Outcomes :
          LET lid == ops[o].lexicon_id
          IN /\ Loaded(o, outcome, DictPut(lexicons, lid, <<>>), "created")
             /\ IF outcome = "ok"
                THEN lexicon_files' = DictPut(lexicon_files, lid, File(<<>>))
                ELSE lexicon_files' \in {lexicon_files, DictPut(lexicon_files, lid, BadFile)}
    /\ UNCHANGED opFrame

\* the object a suspended save holds
Held(o) == IF ops[o].aliased THEN lexicons[ops[o].lexicon_id] ELSE ops[o].own

\* save_lexicon after aiofiles.open(path, 'w') has returned or failed
SaveOpen_lexicon(o) ==
    /\ ops[o].pc = "open"
    /\ \E outcome \in Outcomes :
          IF outcome = "ok"
          THEN /\ lexicon_files' = DictPut(lexicon_files, ops[o].lexicon_id, BadFile)
               /\ ops' = [ops EXCEPT ![o].pc = "write"]
          ELSE /\ ops' = [ops EXCEPT ![o] = Done(ops[o], ops[o].got, "ok", "failed")]
               /\ UNCHANGED lexicon_files
    /\ UNCHANGED <<lexicons, builtin_keywords>>
    /\ UNCHANGED opFrame

\* save_lexicon: json.dumps(data) and the write
SaveWrite_lexicon(o) ==
    /\ ops[o].pc = "write"
    /\ \E outcome \in Outcomes :
          /\ lexicon_files' = IF outcome = "ok"
                              THEN DictPut(lexicon_files, ops[o].lexicon_id,
                                           File(Dumped(builtin_keywords, Held(o))))
                              ELSE lexicon_files
          /\ ops' = [ops EXCEPT ![o] = Done(ops[o], ops[o].got, "ok",
                                             IF outcome = "ok" THEN "ok" ELSE "failed")]
    /\ UNCHANGED <<lexicons, builtin_keywords>>
    /\ UNCHANGED opFrame

\* handle_admin_command, "词库备份": the file of the current lexicon id, when
\* there is one, is copied to the backups directory. Nothing reads a backup;
\* `backups` keeps the lexicon ids that have one.
Backup(group_id, user_id) ==
    LET lid == CurrentId(group_id, user_id)
    IN /\ \A o \in Ops : ops[o].pc = "idle"
       /\ lid \in DOMAIN lexicon_files
       /\ backups' = backups \cup {lid}
       /\ UNCHANGED <<now, ledgerVars, handlerVars, lastSet, resolveVars, lexicons,
                      lexicon_files, builtin_keywords, ops, faults, config, found,
                      evaluated>>

\* ------------------------------------------------------------ messages
\* A message text is a sequence of tokens: a character, the space " ", a
\* response or lexicon name written as one token, or one token for a command
\* word of handle_admin_command: "add_exact" for 精准问答, "add_fuzzy" for
\* 模糊问答, "add_option" for 加选项, "delete" for 删词, "list" for 查词, "clear"
\* for 词库清空, "backup" for 词库备份 and "switch" for 切换词库.
\* the whitespace of the texts
Spaces == {" ", "\n"}

RECURSIVE lstrip(_)
lstrip(s) == IF s # <<>> /\ s[1] \in Spaces THEN lstrip(Tail(s)) ELSE s

RECURSIVE rstrip(_)
rstrip(s) == IF s # <<>> /\ s[Len(s)] \in Spaces THEN rstrip(SubSeq(s, 1, Len(s) - 1)) ELSE s

strip(s) == rstrip(lstrip(s))

\* the last position of the word of s that starts at i
RECURSIVE WordEnd(_, _)
WordEnd(s, i) ==
    IF i > Len(s) THEN i - 1 ELSE IF s[i] \in Spaces THEN i - 1 ELSE WordEnd(s, i + 1)

\* str.split(maxsplit=n) of a stripped text: the words, the rest in one piece
\* after n splits
RECURSIVE split(_, _)
split(s, maxsplit) ==
    LET t == lstrip(s)
        e == WordEnd(t, 1)
    IN IF t = <<>> THEN <<>>
       ELSE IF maxsplit = 0 THEN <<t>>
       ELSE <<SubSeq(t, 1, e)>> \o split(SubSeq(t, e + 1, Len(t)), maxsplit - 1)

\* the string a sequence of tokens spells
RECURSIVE Text(_)
Text(s) == IF s = <<>> THEN "" ELSE s[1] \o Text(Tail(s))

startswith(message, word) == Len(message) >= 2 /\ message[1] = word /\ message[2] = " "

NotCommand == [handled |-> FALSE, kind |-> "", keyword |-> <<>>, response |-> "", mode |-> 0]

Command(kind, keyword, response, mode) ==
    [handled |-> TRUE, kind |-> kind, keyword |-> keyword, response |-> response,
     mode |-> mode]

\* handle_admin_command: what it returns, and the helper it calls with which
\* arguments. A command word whose arguments are missing falls out of the
\* if-chain to `return False`.
handle_admin_command(message) ==
    LET rest == strip(Tail(message))
        parts == split(rest, 2)
    IN IF startswith(message, "add_exact")
       THEN IF Len(parts) >= 2 THEN Command("add", parts[1], Text(parts[2]), 1)
            ELSE NotCommand
       ELSE IF startswith(message, "add_fuzzy")
       THEN IF Len(parts) >= 2 THEN Command("add", parts[1], Text(parts[2]), 0)
            ELSE NotCommand
       ELSE IF startswith(message, "add_option")
       THEN IF Len(parts) >= 2 THEN Command("add_response", parts[1], Text(parts[2]), 0)
            ELSE NotCommand
       ELSE IF startswith(message, "delete")
       THEN IF rest # <<>> THEN Command("remove", rest, "", 0) ELSE NotCommand
       ELSE IF startswith(message, "list") THEN Command("list", rest, "", 0)
       ELSE IF message = <<"clear">> THEN Command("clear", <<>>, "", 0)
       ELSE IF message = <<"backup">> THEN Command("backup", <<>>, "", 0)
       ELSE IF startswith(message, "switch") THEN Command("switch", <<>>, Text(rest), 0)
       ELSE NotCommand

\* is_admin with every sender in admin_ids
IsAdminAnyone(user_id) == TRUE

\* is_admin
IsAdmin(user_id) == user_id \in config.admin_ids

should_ignore(group_id, user_id) ==
    \/ group_id # "" /\ group_id \in config.ignore_groups
    \/ user_id \in config.ignore_users

\* handle_group_message (group_id # "") and handle_private_message
\* (group_id = "") from the arrival of a message to the first suspension of the
\* helper that handle_admin_command calls, or to the return of search_keyword.
\* What follows a match is the reply and its cooldown (Receive).
HandleMessage(o, group_id, user_id, message) ==
    LET cmd == IF IsAdmin(user_id) THEN handle_admin_command(message) ELSE NotCommand
    IN /\ ~should_ignore(group_id, user_id)
       /\ IF cmd.handled
          THEN CASE cmd.kind = "add" ->
                      AddKeyword(o, group_id, user_id, cmd.keyword, cmd.response, cmd.mode)
                 [] cmd.kind = "add_response" ->
                      AddResponse(o, group_id, user_id, cmd.keyword, cmd.response)
                 [] cmd.kind = "remove" -> RemoveKeyword(o, group_id, user_id, cmd.keyword)
                 [] cmd.kind = "list" -> ListKeywords(o, group_id, user_id)
                 [] cmd.kind = "clear" -> ClearLexicon(o, group_id, user_id)
                 [] cmd.kind = "backup" -> Backup(group_id, user_id)
                 [] cmd.kind = "switch" -> SwitchLexicon(user_id, cmd.response)
          ELSE Search(message, group_id, user_id, IsAdmin(user_id))

\* ------------------------------------------------------------ template engine
\* The texts are sequences of one-character strings. A Chinese word of the
\* source is one token: "xiaoxi" for 消息, "tupian" for 图片, "aite" for 艾特,
\* "biaoqing" for 表情, "huifu" for 回复, "yuyin" for 语音.

\* the characters of the texts in the order of their code points
Ascii ==
    <<" ", "(", ")", "*", "+", "-", ".", "/",
      "0", "1", "2", "3", "4", "5", "6", "7", "8", "9",
      "<", "=", ">", "[", "]", "a", "d", "e", "f", "h", "i", "k", "l", "n", "o", "q", "t",
      "x", "{", "}", "~">>

Code(c) == CHOOSE i \in 1 .. Len(Ascii) : Ascii[i] = c

\* the first position from i on where sub occurs in text, 0 when there is none
RECURSIVE Find(_, _, _)
Find(text, sub, i) ==
    IF i + Len(sub) - 1 > Len(text) THEN 0
    ELSE IF SubSeq(text, i, i + Len(sub) - 1) = sub THEN i
    ELSE Find(text, sub, i + 1)

\* text with the n characters from position i on replaced by new
Splice(text, i, n, new) ==
    SubSeq(text, 1, i - 1) \o new \o SubSeq(text, i + n, Len(text))

\* str.replace(old, new)
RECURSIVE replace(_, _, _)
replace(text, old, new) ==
    LET i == Find(text, old, 1)
    IN IF i = 0 THEN text
       ELSE SubSeq(text, 1, i - 1) \o new
            \o replace(SubSeq(text, i + Len(old), Len(text)), old, new)

\* str() of a natural number
RECURSIVE StrNat(_)
StrNat(n) == IF n < 10 THEN <<ToString(n)>> ELSE StrNat(n \div 10) \o <<ToString(n % 10)>>

\* str() of an integer
Str(n) == IF n < 0 THEN <<"-">> \o StrNat(0 - n) ELSE StrNat(n)

\* ---- process_response, the wildcard captures
\* the characters of [\d\w/.:?=&-] among those of the texts
SafeChars == Digits \cup {"a", "d", "e", "f", "h", "i", "k", "l", "n", "o", "q", "t", "x",
                          "/", ".", "=", "-"}

\* re.search(r'[\d\w/.:?=&-]+', s): the first run of such characters
RECURSIVE SafeRun(_, _)
SafeRun(s, i) == IF i <= Len(s) /\ s[i] \in SafeChars THEN 1 + SafeRun(s, i + 1) ELSE 0

RECURSIVE clean_match(_)
clean_match(s) ==
    IF s = <<>> THEN <<>>
    ELSE IF SafeRun(s, 1) > 0 THEN SubSeq(s, 1, SafeRun(s, 1))
    ELSE clean_match(Tail(s))

\* the loop `for i in range(1, 6)` from i on; matches is the list of six
\* captures, or the empty list
RECURSIVE WildcardPass(_, _, _)
WildcardPass(text, matches, i) ==
    IF i > 5 THEN text
    ELSE IF i \in DOMAIN matches /\ matches[i] # <<>>
    THEN LET t1 == replace(text, <<"[", "n", ".", ToString(i), "]">>, matches[i])
             c == clean_match(matches[i])
             t2 == IF c # <<>>
                   THEN replace(t1, <<"[", "n", ".", ToString(i), ".", "t", "]">>, c)
                   ELSE t1
         IN WildcardPass(t2, matches, i + 1)
    ELSE WildcardPass(text, matches, i + 1)

\* ---- the variables of the sender and of the message
ContextPass(text, event) ==
    LET t1 == replace(text, <<"[", "q", "q", "]">>, event.sender_id)
        t2 == replace(t1, <<"[", "g", "r", "o", "u", "p", "]">>, event.group_id)
        t3 == replace(t2, <<"[", "n", "a", "m", "e", "]">>, event.sender_name)
        t4 == replace(t3, <<"[", "c", "a", "r", "d", "]">>, event.sender_name)
        t5 == replace(t4, <<"[", "a", "i", "]">>, event.self_id)
        t6 == replace(t5, <<"[", "i", "d", "]">>, event.message_id)
    IN replace(t6, <<"[", "xiaoxi", "i", "d", "]">>, event.message_id)

\* ---- the random numbers
\* the length of the match of \((\d+)-(\d+)\) at position i, 0 for none
RandomAt(text, i) ==
    LET a == DigitRun(text, i + 1)
        b == DigitRun(text, i + a + 2)
    IN IF /\ text[i] = "("
          /\ a > 0 /\ i + a + 1 <= Len(text) /\ text[i + a + 1] = "-"
          /\ b > 0 /\ i + a + b + 2 <= Len(text) /\ text[i + a + b + 2] = ")"
       THEN a + b + 3 ELSE 0

RECURSIVE RandomSearch(_, _)
RandomSearch(text, i) ==
    IF i > Len(text) THEN 0
    ELSE IF RandomAt(text, i) > 0 THEN i ELSE RandomSearch(text, i + 1)

\* the loop of the random numbers: the texts it can leave, or the ValueError
\* that random.randint raises for an empty range
RECURSIVE RandomPass(_)
RandomPass(text) ==
    LET i == RandomSearch(text, 1)
        a == DigitRun(text, i + 1)
        b == DigitRun(text, i + a + 2)
        min_val == IntOf(SubSeq(text, i + 1, i + a))
        max_val == IntOf(SubSeq(text, i + a + 2, i + a + b + 1))
    IN IF i = 0 THEN {[raised |-> "", text |-> text]}
       ELSE IF min_val > max_val THEN {[raised |-> "ValueError", text |-> text]}
       ELSE UNION {RandomPass(Splice(text, i, a + b + 3, Str(rand_num))) :
                      rand_num \in min_val .. max_val}

\* ---- the time variables
TimePass(text, event) ==
    LET t1 == replace(text, <<"(", "Y", ")">>, Str(event.now.year))
        t2 == replace(t1, <<"(", "M", ")">>, Str(event.now.month))
        t3 == replace(t2, <<"(", "D", ")">>, Str(event.now.day))
        t4 == replace(t3, <<"(", "h", ")">>, Str(event.now.hour))
        t5 == replace(t4, <<"(", "m", ")">>, Str(event.now.minute))
    IN replace(t5, <<"(", "s", ")">>, Str(event.now.second))

\* ---- SafeMathEvaluator
\* A number of an expression: a Python int, or a float whose value is whole.
Int_(n) == [float |-> FALSE, val |-> n]
Float_(n) == [float |-> TRUE, val |-> n]

\* the characters evaluate() lets through
SafeMathChars == Digits \cup {"+", "-", "*", "/", ".", "(", ")", " "}

Operators == {"+", "-", "*", "/"}

\* The expressions the evaluators are modelled for: numbers written in digits
\* with one operator between two of them. The templates of the runs hold no
\* other expression of safe characters, and no division with a remainder.
PlainExpr(expr) ==
    /\ expr # <<>>
    /\ expr[1] \in Digits /\ expr[Len(expr)] \in Digits
    /\ \A i \in 1 .. Len(expr) : expr[i] \in Digits \cup Operators
    /\ \A i \in 1 .. Len(expr) - 1 : ~(expr[i] \in Operators /\ expr[i + 1] \in Operators)

\* the last position of expr that holds one of the characters, 0 for none
RECURSIVE LastOf(_, _, _)
LastOf(expr, chars, i) ==
    IF i = 0 THEN 0 ELSE IF expr[i] \in chars THEN i ELSE LastOf(expr, chars, i - 1)

\* Python's a / b of two numbers with b # 0: a float
TrueDiv(a, b) == CASE a.val % b.val = 0 -> Float_(a.val \div b.val)

Times(a, b) == [float |-> a.float \/ b.float, val |-> a.val * b.val]

Plus(a, b) == [float |-> a.float \/ b.float, val |-> a.val + b.val]

Minus(a, b) == [float |-> a.float \/ b.float, val |-> a.val - b.val]

\* simple_eval(expr) of the simpleeval package on a plain expression: the value
\* Python's arithmetic gives it, or the ZeroDivisionError
RECURSIVE simple_eval(_)
simple_eval(expr) ==
    LET s == LastOf(expr, {"+", "-"}, Len(expr))
        p == LastOf(expr, {"*", "/"}, Len(expr))
        k == IF s > 0 THEN s ELSE p
        l == simple_eval(SubSeq(expr, 1, k - 1))
        r == simple_eval(SubSeq(expr, k + 1, Len(expr)))
    IN IF k = 0 THEN [raised |-> "", num |-> Int_(IntOf(expr))]
       ELSE IF l.raised # "" THEN l
       ELSE IF r.raised # "" THEN r
       ELSE IF expr[k] = "/" /\ r.num.val = 0
       THEN [raised |-> "ZeroDivisionError", num |-> Int_(0)]
       ELSE [raised |-> "",
             num |-> CASE expr[k] = "+" -> Plus(l.num, r.num)
                       [] expr[k] = "-" -> Minus(l.num, r.num)
                       [] expr[k] = "*" -> Times(l.num, r.num)
                       [] expr[k] = "/" -> TrueDiv(l.num, r.num)]

\* str() of a number
StrNum(x) == IF x.float THEN Str(x.val) \o <<".", "0">> ELSE Str(x.val)

\* float(s) when s holds a '.', else int(s), for a value that is whole
ParseNum(s) ==
    LET dot == Find(s, <<".">>, 1)
    IN CASE dot = 0 -> Int_(IntOf(s))
         [] dot > 0 /\ SubSeq(s, dot + 1, Len(s)) = <<"0">> ->
              Float_(IntOf(SubSeq(s, 1, dot - 1)))

\* the length of the run of digits and dots that ends at position i
RECURSIVE LeftRun(_, _)
LeftRun(expr, i) ==
    IF i >= 1 /\ expr[i] \in Digits \cup {"."} THEN 1 + LeftRun(expr, i - 1) ELSE 0

\* the length of the run of digits and dots that starts at position i
RECURSIVE RightRun(_, _)
RightRun(expr, i) ==
    IF i <= Len(expr) /\ expr[i] \in Digits \cup {"."} THEN 1 + RightRun(expr, i + 1) ELSE 0

\* _extract_left_number and _extract_right_number
extract_left_number(expr, idx) ==
    IF LeftRun(expr, idx - 1) = 0 THEN Int_(0)
    ELSE ParseNum(SubSeq(expr, idx - LeftRun(expr, idx - 1), idx - 1))

extract_right_number(expr, idx) ==
    IF RightRun(expr, idx + 1) = 0 THEN Int_(0)
    ELSE ParseNum(SubSeq(expr, idx + 1, idx + RightRun(expr, idx + 1)))

\* _basic_eval: `while op in expr` for one of the operators '*' and '/'; a
\* division by zero gives 0
RECURSIVE MulDivLoop(_, _)
MulDivLoop(expr, op) ==
    LET idx == Find(expr, <<op>>, 1)
        left == extract_left_number(expr, idx)
        right == extract_right_number(expr, idx)
        result == IF op = "*" THEN Times(left, right)
                  ELSE IF right.val # 0 THEN TrueDiv(left, right) ELSE Int_(0)
    IN IF idx = 0 THEN expr
       ELSE MulDivLoop(SubSeq(expr, 1, idx - 1 - Len(StrNum(left)))
                       \o StrNum(result)
                       \o SubSeq(expr, idx + Len(StrNum(right)) + 1, Len(expr)),
                       op)

\* _basic_eval: the loop of the additions and subtractions from position i on
RECURSIVE AddSubLoop(_, _, _, _, _)
AddSubLoop(expr, i, result, current_num, current_op) ==
    IF i > Len(expr) THEN result
    ELSE LET char == expr[i]
             num_str == IF i = Len(expr) THEN Append(current_num, char) ELSE current_num
             sum == IF num_str = <<>> THEN result
                    ELSE IF current_op = "+" THEN Plus(result, ParseNum(num_str))
                    ELSE Minus(result, ParseNum(num_str))
         IN IF char \in {"+", "-"} \/ i = Len(expr)
            THEN IF char \in {"+", "-"}
                 THEN AddSubLoop(expr, i + 1, sum, <<>>, char)
                 ELSE AddSubLoop(expr, i + 1, sum, num_str, current_op)
            ELSE AddSubLoop(expr, i + 1, result, Append(current_num, char), current_op)

\* _basic_eval of a plain expression
basic_eval(expr) ==
    [raised |-> "",
     num |-> AddSubLoop(MulDivLoop(MulDivLoop(expr, "*"), "/"), 1, Int_(0), <<>>, "+")]

\* evaluate(expr): None, or the number that str() is applied to. A float with
\* a whole value has become an int.
evaluate(simpleeval_available, expr) ==
    IF \E i \in 1 .. Len(expr) : expr[i] \notin SafeMathChars
    THEN [none |-> TRUE, val |-> 0]
    ELSE CASE PlainExpr(expr) ->
              LET r == IF simpleeval_available THEN simple_eval(expr) ELSE basic_eval(expr)
              IN IF r.raised # "" THEN [none |-> TRUE, val |-> 0]
                 ELSE [none |-> FALSE, val |-> r.num.val]

\* the position of the ')' that ends the match of \(\+([^\)]+)\) at position
\* i, 0 for no match
ArithAt(text, i) ==
    LET close == Find(text, <<")">>, i + 2)
    IN IF text[i] = "(" /\ i + 1 <= Len(text) /\ text[i + 1] = "+" /\ close > i + 2
       THEN close ELSE 0

RECURSIVE ArithSearch(_, _)
ArithSearch(text, i) ==
    IF i > Len(text) THEN 0
    ELSE IF ArithAt(text, i) > 0 THEN i ELSE ArithSearch(text, i + 1)

\* the loop of the expressions: it ends at the first one without a value
RECURSIVE ArithPass(_, _)
ArithPass(text, simpleeval_available) ==
    LET i == ArithSearch(text, 1)
        close == ArithAt(text, i)
        result == evaluate(simpleeval_available, SubSeq(text, i + 2, close - 1))
    IN IF i = 0 THEN text
       ELSE IF result.none THEN text
       ELSE ArithPass(Splice(text, i, close - i + 1, Str(result.val)), simpleeval_available)

\* ---- the conditional block
Comparators == {">", "<", "="}

RECURSIVE FirstOf(_, _, _)
FirstOf(text, chars, i) ==
    IF i > Len(text) THEN 0 ELSE IF text[i] \in chars THEN i ELSE FirstOf(text, chars, i + 1)

\* the match of \{(.*?)([><=])(.*?)\} that starts at position i: the positions
\* of its comparator and of its '}', which are the first comparator after the
\* '{' and the first '}' after that
CondAt(text, i) ==
    LET op == FirstOf(text, Comparators, i + 1)
        close == IF op = 0 THEN 0 ELSE FirstOf(text, {"}"}, op + 1)
    IN IF text[i] = "{" /\ close > 0
       THEN [found |-> TRUE, start |-> i, op |-> op, close |-> close]
       ELSE [found |-> FALSE, start |-> 0, op |-> 0, close |-> 0]

\* re.search from position i on
RECURSIVE CondSearch(_, _)
CondSearch(text, i) ==
    IF i > Len(text) THEN [found |-> FALSE, start |-> 0, op |-> 0, close |-> 0]
    ELSE IF CondAt(text, i).found THEN CondAt(text, i) ELSE CondSearch(text, i + 1)

\* str.isdigit
isdigit(s) == s # <<>> /\ \A i \in 1 .. Len(s) : s[i] \in Digits

\* a < b for two strings
RECURSIVE StrLess(_, _)
StrLess(a, b) ==
    IF b = <<>> THEN FALSE
    ELSE IF a = <<>> THEN TRUE
    ELSE IF a[1] = b[1] THEN StrLess(Tail(a), Tail(b))
    ELSE Code(a[1]) < Code(b[1])

\* the value of the comparison, or the TypeError that > and < raise between
\* an int and a str
Compare(a, op, b) ==
    IF op = "="
    THEN [raised |-> "",
          result |-> (IF isdigit(a) THEN Str(IntOf(a)) ELSE a)
                     = (IF isdigit(b) THEN Str(IntOf(b)) ELSE b)]
    ELSE IF isdigit(a) # isdigit(b) THEN [raised |-> "TypeError", result |-> FALSE]
    ELSE IF isdigit(a)
    THEN [raised |-> "", result |-> IF op = ">" THEN IntOf(a) > IntOf(b)
                                     ELSE IntOf(a) < IntOf(b)]
    ELSE [raised |-> "", result |-> IF op = ">" THEN StrLess(b, a) ELSE StrLess(a, b)]

\* re.sub(r'\{.*?[><=].*?\}', '', text)
RECURSIVE RemoveBlocks(_)
RemoveBlocks(text) ==
    LET m == CondSearch(text, 1)
    IN IF ~m.found THEN text
       ELSE SubSeq(text, 1, m.start - 1) \o RemoveBlocks(SubSeq(text, m.close + 1, Len(text)))

\* text with its first block removed and nothing else
RemoveFirstBlock(text) ==
    LET m == CondSearch(text, 1)
    IN IF ~m.found THEN text ELSE Splice(text, m.start, m.close - m.start + 1, <<>>)

\* the step of the conditional block: the text that goes on to
\* parse_special_commands, None, or the exception
ConditionalPass(text) ==
    LET m == CondSearch(text, 1)
        c == Compare(SubSeq(text, m.start + 1, m.op - 1), text[m.op],
                     SubSeq(text, m.op + 1, m.close - 1))
    IN IF ~m.found THEN [kind |-> "text", text |-> text]
       ELSE IF c.raised # "" THEN [kind |-> c.raised, text |-> text]
       ELSE IF c.result THEN [kind |-> "text", text |-> RemoveBlocks(text)]
       ELSE [kind |-> "none", text |-> text]

\* ---- parse_special_commands
\* re.split(r'(\[.*?\])', text): the texts between the bracketed tokens and the
\* tokens, in order
RECURSIVE SplitBrackets(_)
SplitBrackets(text) ==
    LET open == Find(text, <<"[">>, 1)
        close == IF open = 0 THEN 0 ELSE Find(text, <<"]">>, open + 1)
    IN IF close = 0 THEN <<text>>
       ELSE <<SubSeq(text, 1, open - 1), SubSeq(text, open, close)>>
            \o SplitBrackets(SubSeq(text, close + 1, Len(text)))

\* str.split('.')
RECURSIVE SplitDots(_)
SplitDots(s) ==
    LET dot == Find(s, <<".">>, 1)
    IN IF dot = 0 THEN <<s>>
       ELSE <<SubSeq(s, 1, dot - 1)>> \o SplitDots(SubSeq(s, dot + 1, Len(s)))

\* '.'.join(cmd_parts[1:]): what follows the first dot
AfterFirstDot(cmd) == SubSeq(cmd, Find(cmd, <<".">>, 1) + 1, Len(cmd))

Plain(text) == [type |-> "Plain", arg |-> text]

\* the components one part of the split adds to the chain. The keys of the
\* texts are in lower case already.
Components(part, event) ==
    LET cmd == SubSeq(part, 2, Len(part) - 1)
        cmd_parts == SplitDots(cmd)
        cmd_type == cmd_parts[1]
    IN IF strip(part) = <<>> THEN <<>>
       ELSE IF ~(part[1] = "[" /\ part[Len(part)] = "]") THEN <<Plain(part)>>
       ELSE IF Len(cmd_parts) < 2 THEN <<>>
       ELSE IF cmd_type \in {<<"i", "m", "a", "g", "e">>, <<"tupian">>}
       THEN <<[type |-> "Image", arg |-> AfterFirstDot(cmd)]>>
       ELSE IF cmd_type \in {<<"a", "t">>, <<"aite">>}
       THEN <<[type |-> "At", arg |-> IF cmd_parts[2] # <<>> THEN cmd_parts[2]
                                       ELSE event.sender_id]>>
       ELSE IF cmd_type \in {<<"f", "a", "c", "e">>, <<"biaoqing">>}
       THEN IF cmd_parts[2] # <<>> THEN <<[type |-> "Face", arg |-> cmd_parts[2]]>> ELSE <<>>
       ELSE IF cmd_type \in {<<"r", "e", "p", "l", "y">>, <<"huifu">>}
       THEN <<[type |-> "Reply", arg |-> IF cmd_parts[2] # <<>> THEN cmd_parts[2]
                                          ELSE event.message_id]>>
       ELSE IF cmd_type \in {<<"r", "e", "c", "o", "r", "d">>, <<"yuyin">>}
       THEN <<[type |-> "Record", arg |-> AfterFirstDot(cmd)]>>
       ELSE IF cmd_type = <<"p", "o", "k", "e">>
       THEN IF Len(cmd_parts) >= 3 THEN <<[type |-> "Poke", arg |-> cmd_parts[2]]>> ELSE <<>>
       ELSE <<Plain(part)>>

RECURSIVE ChainOf(_, _)
ChainOf(parts, event) ==
    IF parts = <<>> THEN <<>>
    ELSE Components(parts[1], event) \o ChainOf(Tail(parts), event)

parse_special_commands(text, event) == ChainOf(SplitBrackets(text), event)

\* ---- process_response: what a call can return, or the exception it raises
\* no chain is returned: None ("none"), or the exception raised
NoChain(kind) == [kind |-> kind, chain |-> <<>>]

\* the text the conditional block is looked for in: the time variables and the
\* expressions are expanded
Expand(text, event) == ArithPass(TimePass(text, event), config.simpleeval_available)

AfterRandom(text, event) ==
    LET c == ConditionalPass(Expand(text, event))
    IN IF c.kind = "text"
       THEN [kind |-> "chain", chain |-> parse_special_commands(c.text, event)]
       ELSE NoChain(c.kind)

process_response(response, matches, event) ==
    {IF r.raised # "" THEN NoChain(r.raised) ELSE AfterRandom(r.text, event) :
        r \in RandomPass(ContextPass(WildcardPass(response, matches, 1), event))}

\* the arguments of a call that is still to be made
Input(response, matches) ==
    [fn |-> "input", response |-> response, matches |-> matches, result |-> NoChain("")]

\* The call of process_response that handle_group_message makes for a search
\* result: its outcome is recorded.
Render(event) ==
    /\ evaluated.fn = "input"
    /\ evaluated' \in {[evaluated EXCEPT !.fn = "process_response", !.result = r] :
                          r \in process_response(evaluated.response, evaluated.matches,
                                                 event)}
    /\ UNCHANGED <<now, ledgerVars, handlerVars, lastSet, resolveVars, lexicons,
                   lexicon_files, builtin_keywords, backups, ops, faults, config, found>>

\* ------------------------------------------------------------ specifications
OldExpire == 3

\* cooling/g2.json as an earlier run of the process may have left it
OldFiles ==
    {EmptyDict,
     [l \in {"g2"} |-> {[user_id |-> "u1", item_index |-> 0, expire_time |-> OldExpire]}]}

\* KeywordManager.__init__ and initialize(): nothing cached, no operation
\* running, the builtin keywords as written in the source
StoreInit ==
    /\ lexicons = EmptyDict
    /\ builtin_keywords = BuiltinKeywords
    /\ backups = {}
    /\ ops = [o \in Ops |-> NoOp]
    /\ found = NoSearch
    /\ evaluated = NoEval

\* a run that uses no lexicon file
NoStore ==
    /\ StoreInit
    /\ lexicon_files = EmptyDict
    /\ faults = FALSE
    /\ config = [mistake_turn_type |-> FALSE]

\* CoolingManager.__init__ and the handlers before the first message
LedgerStart ==
    /\ now = 0
    /\ cooling_data = EmptyDict
    /\ dirty = FALSE
    /\ lockHeld = FALSE
    /\ save_task = NoTask
    /\ old_tasks = <<>>
    /\ pc = [h \in Handlers |-> "idle"]
    /\ msg = [h \in Handlers |-> NoMsg]
    /\ cooling = [h \in Handlers |-> 0]
    /\ chain = [h \in Handlers |-> "unset"]
    /\ seconds = [h \in Handlers |-> 0]
    /\ lastSet = EmptyDict

LedgerInit ==
    /\ LedgerStart
    /\ cooling_files \in OldFiles

Init ==
    /\ LedgerInit
    /\ NoStore
    /\ cooling_files = EmptyDict
    /\ select_config = EmptyDict
    /\ select_file = <<>>
    /\ switch_config = EmptyDict
    /\ resolved = NoCall

ReceiveAny(h, senders, lexicon_ids) ==
    \E user_id \in senders, lexicon_id \in lexicon_ids :
        \E item_index \in ItemIndexes(lexicon_id) :
            \E resp \in 1 .. Len(Responses(lexicon_id, item_index)) :
                Receive(h, user_id, lexicon_id, item_index, resp)

HandlerStep(h) ==
    \/ LoadExists(h)
    \/ LoadRead(h)
    \/ CheckLocked(h)
    \/ NoticeSent(h)
    \/ Returned(h)
    \/ Resume(h)
    \/ SetLocked(h)

\* the senders and lexicon ids of the messages in flight together
RaceSenders == Users
RaceLexicons == {"g1"}

\* the senders and lexicon ids of the messages handled one after another
SeqSenders == {"u1"}
SeqLexicons == Lexicons

Next ==
    \/ \E h \in Handlers : ReceiveAny(h, RaceSenders, RaceLexicons)
    \/ \E h \in Handlers : HandlerStep(h)
    \/ SaveFilter
    \/ SaveWrite
    \/ CancelledEnds
    \/ Tick

\* two messages in flight on one lexicon id, a fresh data directory
Spec == Init /\ [][Next]_vars

\* Sequential message handling over two lexicon ids: a message is taken up
\* when no handler is in flight. cooling/g2.json may be left from an earlier run.
ReceiveSeq(h) ==
    /\ \A g \in Handlers : pc[g] = "idle"
    /\ ReceiveAny(h, SeqSenders, SeqLexicons)

NextSeq ==
    \/ \E h \in Handlers : ReceiveSeq(h)
    \/ \E h \in Handlers : HandlerStep(h)
    \/ SaveFilter
    \/ SaveWrite
    \/ CancelledEnds
    \/ Tick

InitSeq ==
    /\ LedgerInit
    /\ NoStore
    /\ select_config = EmptyDict
    /\ select_file = <<>>
    /\ switch_config = EmptyDict
    /\ resolved = NoCall

SpecSeq == InitSeq /\ [][NextSeq]_vars

\* get_lexicon_id over every pair of override files
InitResolve ==
    /\ LedgerInit
    /\ NoStore
    /\ cooling_files = EmptyDict
    /\ \E lines \in BoundedSeq(ConfigLines(Users), MaxLines) :
          select_config = load_configs(lines) /\ select_file = lines
    /\ \E lines \in BoundedSeq(ConfigLines(GroupIds \ {""}), MaxLines) :
          switch_config = load_configs(lines)
    /\ resolved = NoCall

NextResolve ==
    \/ \E group_id \in GroupIds, user_id \in Users : Resolve(group_id, user_id)
    \/ \E user_id \in Users, lexicon_name \in LexiconNames :
          SwitchLexicon(user_id, lexicon_name)

SpecResolve == InitResolve /\ [][NextResolve]_vars

\* the ledger at rest and no override, for the runs about the lexicon store
QuietInit ==
    /\ LedgerInit
    /\ cooling_files = EmptyDict
    /\ switch_config = EmptyDict
    /\ resolved = NoCall

\* lexicon/builtin_default.json as _create_builtin_lexicon writes it
BuiltinFile == File(BuiltinWork(BuiltinKeywords))

\* ---- search_keyword over documents on disk, one call at a time
MaxRules == 2

Wild == <<"[", "n", ".", "1", "]", "b">>

SearchRules ==
    {Rule(<<"a">>, <<"r1">>, 1), Rule(<<"a">>, <<"r1">>, 0), Rule(<<"a">>, <<"r1">>, 10),
     Rule(Wild, <<"r1">>, 0), Rule(Wild, <<"r1">>, 10),
     Rule(<<"a", "b">>, <<"r1">>, 10)}

\* the documents of the group's file, and those of the file a user selected
SearchDocs == BoundedSeq(SearchRules, MaxRules)
SelectedDocs == {<<>>, <<Rule(<<"a">>, <<"r1">>, 0)>>, <<Rule(Wild, <<"r1">>, 10)>>}

Texts == {<<"a">>, <<"a", "b">>}

InitSearch ==
    /\ QuietInit
    /\ StoreInit
    /\ faults = FALSE
    /\ config = [mistake_turn_type |-> FALSE]
    /\ \E lines \in {<<>>, <<[eq |-> TRUE, k |-> "u1", v |-> "lexA"]>>} :
          select_file = lines /\ select_config = load_configs(lines)
    /\ \E d1 \in SearchDocs, d2 \in SelectedDocs :
          lexicon_files =
             [lid \in {"builtin_default", "g1", "lexA", "private_u1"} |->
                  IF lid = "builtin_default" THEN BuiltinFile
                  ELSE IF lid = "g1" THEN File(d1)
                  ELSE IF lid = "lexA" THEN File(d2)
                  ELSE File(<<Rule(<<"a">>, <<"r1">>, 0)>>)]

NextSearch ==
    \E text \in Texts, group_id \in {"", "g1"}, is_admin \in BOOLEAN :
        Search(text, group_id, "u1", is_admin)

SpecSearch == InitSearch /\ [][NextSearch]_vars

\* ---- the admin operations of one user in one group, one at a time
MaxResponses == 2

StoreKeys == {<<"(">>, <<"fw(">>}
StoreResponses == {"r1", "r2"}

\* the guards that keep the documents of a run bounded
Room(lid) ==
    IF lid \in DOMAIN lexicons THEN Len(lexicons[lid]) < MaxRules ELSE TRUE

RoomFor(lid, keyword) ==
    IF lid \in DOMAIN lexicons
    THEN IF HasKey(lexicons[lid], keyword)
         THEN Len(Resp(builtin_keywords,
                       lexicons[lid][FirstKey(lexicons[lid], keyword)])) < MaxResponses
         ELSE TRUE
    ELSE TRUE

Solo == \A o \in Ops : ops[o].pc = "idle"

OpStep(o) ==
    \/ LoadExists_lexicon(o)
    \/ LoadRead_lexicon(o)
    \/ LoadCreate_lexicon(o)
    \/ SaveOpen_lexicon(o)
    \/ SaveWrite_lexicon(o)

\* the files of a group whose document is missing, or holds one rule
GroupFiles ==
    {[lid \in {"builtin_default"} |-> BuiltinFile],
     [lid \in {"builtin_default", "g1"} |->
         IF lid = "builtin_default" THEN BuiltinFile
         ELSE File(<<Rule(<<"(">>, <<"r1">>, 0)>>)]}

InitStore ==
    /\ QuietInit
    /\ StoreInit
    /\ select_config = EmptyDict
    /\ select_file = <<>>
    /\ faults = FALSE
    /\ config \in [mistake_turn_type : BOOLEAN]
    /\ lexicon_files \in GroupFiles

NextStore ==
    \/ \E keyword \in StoreKeys, response \in StoreResponses :
          Solo /\ Room("g1") /\ AddKeyword("o1", "g1", "u1", keyword, response, 0)
    \/ \E keyword \in StoreKeys :
          Solo /\ RemoveKeyword("o1", "g1", "u1", keyword)
    \/ \E keyword \in StoreKeys, response \in StoreResponses :
          Solo /\ RoomFor("g1", keyword) /\ AddResponse("o1", "g1", "u1", keyword, response)
    \/ \E keyword \in StoreKeys, response \in StoreResponses :
          Solo /\ RemoveResponse("o1", "g1", "u1", keyword, response)
    \/ Solo /\ Room("g1") /\ BuiltinImport("o1", "g1", "u1", "")
    \/ Solo /\ ClearLexicon("o1", "g1", "u1")
    \/ Solo /\ ListKeywords("o1", "g1", "u1")
    \/ Backup("g1", "u1")
    \/ OpStep("o1")

SpecStore == InitStore /\ [][NextStore]_vars

\* ---- messages of one user that trigger the rules of g1 while an admin edits
\* the document: handle_group_message from search_keyword to set_cooling
RuleKeys == {<<"b">>, <<"c">>}

AddedKeys == {<<"d">>}

RemovedKeys == {<<"b">>, <<"d">>}

Stored == {TplCool1, TplCool2, TplCondEmpty, TplPlain, TplMidnight}

\* a stored response string as the handler sees it
TemplateOf(response) ==
    IF \E t \in Stored : t.text = response
    THEN CHOOSE t \in Stored : t.text = response
    ELSE [text |-> response, has_cd |-> FALSE, cd |-> 0, chains |-> {"segments"}]

\* A message that is no command: search_keyword runs, and when it returns a
\* rule, random.choice picks one of its responses and check_cooling is entered
\* with the result's lexicon_id and item_index.
Match(h, group_id, user_id, text) ==
    LET ids == SearchOrder(select_config, switch_config, group_id, user_id)
        res == search_keyword(builtin_keywords, lexicons, lexicon_files,
                              select_config, switch_config,
                              text, group_id, user_id, FALSE)
        seen == {ids[k] : k \in 1 .. res.visited}
        work == DocOf(lexicons, lexicon_files, res.lexicon_id)
    IN /\ pc[h] = "idle"
       /\ found' = [called |-> TRUE, text |-> text, group_id |-> group_id,
                    user_id |-> user_id, is_admin |-> FALSE, ids |-> ids,
                    result |-> res]
       /\ lexicons' = CacheAfter(lexicons, lexicon_files, seen)
       /\ lexicon_files' = FilesAfter(lexicons, lexicon_files, seen)
       /\ IF res.found
          THEN \E n \in 1 .. Len(Resp(builtin_keywords, work[res.item_index + 1])) :
                  Enter(h, [user |-> user_id, lex |-> res.lexicon_id,
                            idx |-> res.item_index, resp |-> n,
                            keyword |-> res.keyword,
                            tpl |-> TemplateOf(Resp(builtin_keywords,
                                                    work[res.item_index + 1])[n])])
          ELSE UNCHANGED <<handlerVars, cooling_data, dirty>>
       /\ UNCHANGED <<now, lockHeld, save_task, cooling_files, old_tasks, lastSet,
                      resolveVars, builtin_keywords, backups, ops, faults, config,
                      evaluated>>

RuleFile == File(<<Rule(<<"b">>, <<"hi(1~)">>, 1), Rule(<<"c">>, <<"yo(2~)">>, 1)>>)

\* cooling/g1.json as an earlier run has left it: a cooldown of another user
RuleCooling ==
    [l \in {"g1"} |-> {[user_id |-> "u2", item_index |-> 0, expire_time |-> OldExpire]}]

InitRule ==
    /\ LedgerStart
    /\ cooling_files = RuleCooling
    /\ switch_config = EmptyDict
    /\ resolved = NoCall
    /\ StoreInit
    /\ select_config = EmptyDict
    /\ select_file = <<>>
    /\ faults = FALSE
    /\ config = [mistake_turn_type |-> FALSE]
    /\ lexicon_files = [lid \in {"builtin_default", "g1"} |->
                           IF lid = "builtin_default" THEN BuiltinFile ELSE RuleFile]

\* no message is in flight and no admin operation either
Quiet == Solo /\ \A h \in Handlers : pc[h] = "idle"

\* the document of g1 is cached: a message has been searched in it
Cached == "g1" \in DOMAIN lexicons

\* A rule of RuleFile that is removed is never added again; the rule an admin
\* adds has a keyword of its own. The admin edits the document after
\* the first message, so that the helpers find it in the cache.
NextRule ==
    \/ \E text \in RuleKeys \cup AddedKeys : Quiet /\ Match("h1", "g1", "u1", text)
    \/ HandlerStep("h1")
    \/ \E keyword \in AddedKeys :
          /\ Quiet /\ Cached /\ Room("g1")
          /\ AddKeyword("o1", "g1", "u2", keyword, TplCondEmpty.text, 1)
    \/ \E keyword \in RemovedKeys :
          Quiet /\ Cached /\ RemoveKeyword("o1", "g1", "u2", keyword)
    \/ SaveOpen_lexicon("o1")
    \/ SaveWrite_lexicon("o1")
    \/ SaveFilter
    \/ SaveWrite
    \/ CancelledEnds
    \/ Tick

SpecRule == InitRule /\ [][NextRule]_vars

\* ---- one user of group g1 who may select builtin_default as their lexicon
AliasNames == {"builtin_default", "g1"}

\* the lexicon id the operations of user u1 in group g1 act on
AliasId == CurrentId("g1", "u1")

InitAlias ==
    /\ QuietInit
    /\ StoreInit
    /\ select_config = EmptyDict
    /\ select_file = <<>>
    /\ faults = FALSE
    /\ config = [mistake_turn_type |-> FALSE]
    /\ lexicon_files = [lid \in {"builtin_default"} |-> BuiltinFile]

NextAlias ==
    \/ \E lexicon_name \in AliasNames : Solo /\ SwitchLexicon("u1", lexicon_name)
    \/ Solo /\ Room(AliasId) /\ AddKeyword("o1", "g1", "u1", <<"a">>, "r1", 1)
    \/ Solo /\ RemoveKeyword("o1", "g1", "u1", <<"a">>)
    \/ \E response \in StoreResponses :
          Solo /\ RoomFor(AliasId, <<"a">>) /\ AddResponse("o1", "g1", "u1", <<"a">>, response)
    \/ \E response \in StoreResponses :
          Solo /\ RemoveResponse("o1", "g1", "u1", <<"a">>, response)
    \/ Solo /\ Room(AliasId) /\ BuiltinImport("o1", "g1", "u1", "")
    \/ Solo /\ ClearLexicon("o1", "g1", "u1")
    \/ Search(<<"a">>, "g1", "u1", FALSE)
    \/ OpStep("o1")

SpecAlias == InitAlias /\ [][NextAlias]_vars

\* ---- the built-in rules imported into the documents of g1 and g2, and the
\* helpers applied to the document of g1
ImportTargets == {"g1", "g2"}

InitImport ==
    /\ QuietInit
    /\ StoreInit
    /\ select_config = EmptyDict
    /\ select_file = <<>>
    /\ faults = FALSE
    /\ config = [mistake_turn_type |-> FALSE]
    /\ lexicon_files \in GroupFiles

NextImport ==
    \/ \E target_lexicon \in ImportTargets :
          Solo /\ Room(target_lexicon) /\ BuiltinImport("o1", "g1", "u1", target_lexicon)
    \/ Solo /\ Room("g1") /\ AddKeyword("o1", "g1", "u1", <<"a">>, "r1", 1)
    \/ Solo /\ RemoveKeyword("o1", "g1", "u1", <<"a">>)
    \/ \E response \in StoreResponses :
          Solo /\ RoomFor("g1", <<"a">>) /\ AddResponse("o1", "g1", "u1", <<"a">>, response)
    \/ \E response \in StoreResponses :
          Solo /\ RemoveResponse("o1", "g1", "u1", <<"a">>, response)
    \/ OpStep("o1")

SpecImport == InitImport /\ [][NextImport]_vars

\* ---- get_lexicon on a storage whose operations may fail
\* the file of the group is missing, unreadable, or holds one rule
LoadFiles ==
    GroupFiles \cup
    {[lid \in {"builtin_default", "g1"} |->
         IF lid = "builtin_default" THEN BuiltinFile ELSE BadFile]}

InitLoad ==
    /\ QuietInit
    /\ StoreInit
    /\ select_config = EmptyDict
    /\ select_file = <<>>
    /\ faults = TRUE
    /\ config = [mistake_turn_type |-> FALSE]
    /\ lexicon_files \in LoadFiles

NextLoad ==
    \/ Solo /\ ListKeywords("o1", "g1", "u1")
    \/ \E keyword \in StoreKeys, response \in StoreResponses :
          Solo /\ Room("g1") /\ AddKeyword("o1", "g1", "u1", keyword, response, 0)
    \/ \E keyword \in StoreKeys :
          Solo /\ RemoveKeyword("o1", "g1", "u1", keyword)
    \/ Solo /\ ClearLexicon("o1", "g1", "u1")
    \/ OpStep("o1")

SpecLoad == InitLoad /\ [][NextLoad]_vars

\* ---- two admin operations on the document of one group at the same time
InitStoreRace ==
    /\ QuietInit
    /\ StoreInit
    /\ select_config = EmptyDict
    /\ select_file = <<>>
    /\ faults = FALSE
    /\ config = [mistake_turn_type |-> FALSE]
    /\ lexicon_files \in GroupFiles

NextStoreRace ==
    \/ \E o \in Ops, keyword \in StoreKeys, response \in StoreResponses :
          Room("g1") /\ AddKeyword(o, "g1", "u1", keyword, response, 0)
    \/ \E o \in Ops, keyword \in StoreKeys : RemoveKeyword(o, "g1", "u1", keyword)
    \/ \E o \in Ops : ClearLexicon(o, "g1", "u1")
    \/ \E o \in Ops : OpStep(o)

SpecStoreRace == InitStoreRace /\ [][NextStoreRace]_vars

\* ---- two admins call the mutating helpers on the cached document of g1
InitHelpers ==
    /\ QuietInit
    /\ StoreInit
    /\ select_config = EmptyDict
    /\ select_file = <<>>
    /\ faults = FALSE
    /\ config \in [mistake_turn_type : BOOLEAN]
    /\ lexicon_files \in GroupFiles

\* the first call loads the document; every later call finds it in the cache
InCache == IF "g1" \in DOMAIN lexicons THEN TRUE ELSE Solo

NextHelpers ==
    \/ \E o \in Ops, keyword \in StoreKeys :
          InCache /\ Room("g1") /\ AddKeyword(o, "g1", "u1", keyword, "r1", 0)
    \/ \E o \in Ops, keyword \in StoreKeys :
          InCache /\ RemoveKeyword(o, "g1", "u1", keyword)
    \/ \E o \in Ops, keyword \in StoreKeys :
          InCache /\ RoomFor("g1", keyword) /\ AddResponse(o, "g1", "u1", keyword, "r2")
    \/ \E o \in Ops, keyword \in StoreKeys, response \in StoreResponses :
          InCache /\ RemoveResponse(o, "g1", "u1", keyword, response)
    \/ \E o \in Ops : OpStep(o)

SpecHelpers == InitHelpers /\ [][NextHelpers]_vars

\* ---- the messages of a privileged and of another sender, one at a time
Messages ==
    {<<"a">>,
     <<"add_fuzzy", " ", "b", " ", "r1">>,
     <<"add_exact", " ", "b">>,
     <<"add_option", " ", "a", " ", "r2">>,
     <<"delete", " ", "a">>,
     <<"list", " ", "a">>,
     <<"clear">>,
     <<"backup">>,
     <<"switch", " ", "g2">>}

\* the lexicon ids the messages can reach
MessageIds == {"builtin_default", "g1", "g2"}

InitMessage ==
    /\ QuietInit
    /\ StoreInit
    /\ select_config = EmptyDict
    /\ select_file = <<>>
    /\ faults = FALSE
    /\ config \in [mistake_turn_type : {FALSE}, admin_ids : {{"u1"}},
                   ignore_groups : {{}}, ignore_users : {{}, {"u2"}}]
    /\ lexicon_files = [lid \in {"builtin_default", "g1"} |->
                           IF lid = "builtin_default" THEN BuiltinFile
                           ELSE File(<<Rule(<<"a">>, <<"r1">>, 0)>>)]

NextMessage ==
    \/ \E group_id \in {"g1"}, user_id \in Users, message \in Messages :
          /\ Solo
          /\ Room(CurrentId(group_id, user_id))
          /\ RoomFor(CurrentId(group_id, user_id), <<"a">>)
          /\ HandleMessage("o1", group_id, user_id, message)
    \/ OpStep("o1")

SpecMessage == InitMessage /\ [][NextMessage]_vars

\* ---- 切换词库 sent by two users, and the lexicon ids resolved for them
SwitchMessages ==
    {<<"switch", " ", "lexA">>,
     <<"switch", " ", "lexB">>,
     <<"switch", " ", "lexA", "\n", "lexB">>}

InitSwitch ==
    /\ QuietInit
    /\ StoreInit
    /\ resolved = NoCall
    /\ \E lines \in BoundedSeq(ConfigLines(Users), 1) :
          select_file = lines /\ select_config = load_configs(lines)
    /\ faults = FALSE
    /\ config \in [mistake_turn_type : {FALSE}, admin_ids : {{"u1"}, {"u1", "u2"}},
                   ignore_groups : {{}}, ignore_users : {{}}]
    /\ lexicon_files = [lid \in {"builtin_default"} |-> BuiltinFile]

NextSwitch ==
    \/ \E group_id \in {"", "g1"}, user_id \in Users, message \in SwitchMessages :
          HandleMessage("o1", group_id, user_id, message)
    \/ \E group_id \in {"", "g1"}, user_id \in Users : Resolve(group_id, user_id)

SpecSwitch == InitSwitch /\ [][NextSwitch]_vars

\* ---- process_response over the templates made of a few pieces
MaxPieces == 2

Pieces ==
    {<<"{", "5", ">", "3", "}">>,
     <<"{", "3", ">", "5", "}">>,
     <<"{", "a", ">", "3", "}">>,
     <<"{", "5", "=", "5", "}">>,
     <<"o", "k">>,
     <<"[", "h", "e", "l", "l", "o", "]">>,
     <<"[", "x", ".", "a", "]">>,
     <<"[", "a", "t", ".", "7", "]">>,
     <<"[", "n", ".", "1", "]">>,
     <<"(", "1", "~", ")">>,
     <<"(", "1", "-", "2", ")">>,
     <<"(", "2", "-", "1", ")">>,
     <<"(", "(", "1", "-", "2", ")", "-", "5", ")">>,
     <<"(", "+", "2", "+", "3", "*", "4", ")">>,
     <<"(", "+", "1", "/", "0", ")">>,
     <<"(", "+", "4", "/", "2", ")">>,
     <<"(", "+", "x", ")">>}

RECURSIVE Flatten(_)
Flatten(q) == IF q = <<>> THEN <<>> ELSE q[1] \o Flatten(Tail(q))

Templates == {Flatten(q) : q \in BoundedSeq(Pieces, MaxPieces)}

\* the message a response is rendered for
RenderEvent ==
    [sender_id |-> <<"7">>, group_id |-> <<"9">>, sender_name |-> <<"k">>,
     self_id |-> <<"8">>, message_id |-> <<"4">>,
     now |-> [year |-> 2026, month |-> 11, day |-> 4, hour |-> 5, minute |-> 6,
              second |-> 7]]

\* the "matches" of a search result: none, or the capture "q" in slot 1
RenderMatches == {<<>>, [k \in 0 .. 5 |-> IF k = 1 THEN <<"q">> ELSE <<>>]}

InitRender ==
    /\ QuietInit
    /\ lexicons = EmptyDict
    /\ builtin_keywords = BuiltinKeywords
    /\ backups = {}
    /\ ops = [o \in Ops |-> NoOp]
    /\ found = NoSearch
    /\ \E response \in Templates, matches \in RenderMatches :
          evaluated = Input(response, matches)
    /\ select_config = EmptyDict
    /\ select_file = <<>>
    /\ faults = FALSE
    /\ config \in [mistake_turn_type : {FALSE}, simpleeval_available : BOOLEAN]
    /\ lexicon_files = EmptyDict

NextRender == Render(RenderEvent)

SpecRender == InitRender /\ [][NextRender]_vars

\* ---- match_wildcard on its own
MaxTokens == 3
MaxText == 3

\* the pieces of the wildcard keys: placeholders, letters, and a bracketed
\* token that has another character where the placeholder has its dot
WildcardTokens ==
    {<<"[", "n", ".", "1", "]">>, <<"[", "n", ".", "2", "]">>,
     <<"[", "n", "?", "1", "]">>, <<"a">>, <<"b">>}

\* the keys search_keyword calls match_wildcard for: those that hold "[n."
WildcardPatterns ==
    {p \in {Flatten(q) : q \in BoundedSeq(WildcardTokens, MaxTokens)} :
        IsSubstring(<<"[", "n", ".">>, p)}

\* message texts, stripped and not empty
WildcardTexts == BoundedSeq({"a", "b"}, MaxText) \ {<<>>}

\* the arguments of a call of match_wildcard that is still to be made
WildcardInput(pattern, text) ==
    [fn |-> "wildcard input", pattern |-> pattern, text |-> text,
     result |-> match_wildcard(<<"a">>, <<"b">>)]

\* The call of match_wildcard that search_keyword makes for a key that holds
\* "[n.": its outcome is recorded.
MatchWildcard ==
    /\ evaluated.fn = "wildcard input"
    /\ evaluated' = [evaluated EXCEPT !.fn = "match_wildcard",
                                      !.result = match_wildcard(evaluated.pattern,
                                                                evaluated.text)]
    /\ UNCHANGED <<now, ledgerVars, handlerVars, lastSet, resolveVars, lexicons,
                   lexicon_files, builtin_keywords, backups, ops, faults, config, found>>

InitWildcard ==
    /\ QuietInit
    /\ lexicons = EmptyDict
    /\ builtin_keywords = BuiltinKeywords
    /\ backups = {}
    /\ ops = [o \in Ops |-> NoOp]
    /\ found = NoSearch
    /\ \E pattern \in WildcardPatterns, text \in WildcardTexts :
          evaluated = WildcardInput(pattern, text)
    /\ select_config = EmptyDict
    /\ select_file = <<>>
    /\ faults = FALSE
    /\ config = [mistake_turn_type |-> FALSE]
    /\ lexicon_files = EmptyDict

NextWildcard == MatchWildcard

SpecWildcard == InitWildcard /\ [][NextWildcard]_vars

\* ------------------------------------------------------------ claims
LedgerKey(m) == <<m.lex, m.user, m.idx>>

\* the entry of (lexicon, user, index) in the tables, or {} without one
Entry(data, key) ==
    IF key[1] \in DOMAIN data /\ <<key[2], key[3]>> \in DOMAIN data[key[1]]
    THEN {data[key[1]][<<key[2], key[3]>>]}
    ELSE {}

\* a step in which check_cooling returns to handler h and the handler goes on
\* to its next suspension
CheckReturns(h) ==
    /\ pc[h] \in {"idle", "exists", "reading", "lock"}
    /\ pc'[h] \in {"notice", "sent", "returned"}

\* C1: in sequential message handling, a message of user u that matches rule
\* (L, i) while the cooldown recorded by the last completed set for (L, u, i)
\* has at least one second left gets the cooldown notice only: the response is
\* not rendered and no reply is yielded.
C1_NoticeWhileCooling ==
    [][\A h \in Handlers :
          (/\ CheckReturns(h)
           /\ LedgerKey(msg'[h]) \in DOMAIN lastSet
           /\ lastSet[LedgerKey(msg'[h])].expire - now >= TicksPerSec)
          => (/\ pc'[h] = "notice"
              /\ cooling'[h] >= 1
              /\ chain'[h] = "unset")]_vars

C1_Witness ==
    \E h \in Handlers :
        /\ pc[h] = "notice"
        /\ cooling[h] >= 1
        /\ LedgerKey(msg[h]) \in DOMAIN lastSet
        /\ lastSet[LedgerKey(msg[h])].expire - now >= TicksPerSec
        /\ now > lastSet[LedgerKey(msg[h])].at

\* C2: two messages of the same user that match the same rule, its response
\* carrying a cooldown directive, are never both answered with the reply
\* before the cooldown is recorded.
C2_ReplyAtMostOnce ==
    \A h1, h2 \in Handlers :
        (/\ h1 # h2
         /\ pc[h1] \in {"sent", "set"}
         /\ pc[h2] \in {"sent", "set"}
         /\ LedgerKey(msg[h1]) = LedgerKey(msg[h2]))
        => ~(Template(msg[h1]).has_cd /\ Template(msg[h2]).has_cd)

\* C3: an entry written by a completed set stays in the in-memory table, with
\* the expire_time that set wrote, until it expires or a later set overwrites it.
C3_EntryNotLost ==
    [][\A key \in DOMAIN lastSet :
          (/\ Entry(cooling_data, key) = {lastSet[key].expire}
           /\ lastSet[key].expire > now)
          => \/ Entry(cooling_data', key) = {lastSet[key].expire}
             \/ lastSet'[key] # lastSet[key]]_vars

\* C4: after set(u, L, i, s) at time t, a check(u, L, i) at time t' returns the
\* truncated remaining seconds, a value in [1, s], when expire_at - t' >= 1
\* second, and returns Clear, leaving no entry, when t' >= t + s.
C4_CheckAfterSet ==
    [][\A h \in Handlers :
          (CheckReturns(h) /\ LedgerKey(msg'[h]) \in DOMAIN lastSet)
          => LET expire_at == lastSet[LedgerKey(msg'[h])].expire
                 s == (expire_at - lastSet[LedgerKey(msg'[h])].at) \div TicksPerSec
             IN
             /\ (expire_at - now >= TicksPerSec
                 => /\ cooling'[h] = Remaining(expire_at, now)
                    /\ cooling'[h] >= 1
                    /\ cooling'[h] <= s)
             /\ (now >= expire_at
                 => /\ cooling'[h] = 0
                    /\ Entry(cooling_data', LedgerKey(msg'[h])) = {})]_vars

\* no step of handler h records a cooldown or schedules a save
RecordsNothing == lastSet' = lastSet /\ save_task' = save_task

\* C5: a cooldown is recorded only by a handler that was resumed after it
\* yielded a non-empty chain; the step that renders the response records
\* nothing, and a handler whose chain is None or empty returns without
\* recording anything.
C5_CooldownOnlyAfterSend ==
    [][/\ \A h \in Handlers :
             /\ (pc'[h] \in {"sent", "set"} => chain'[h] = "segments")
             /\ (CheckReturns(h) => RecordsNothing)
             /\ (pc[h] = "returned" /\ pc'[h] # "returned" => RecordsNothing)
       /\ (lastSet' # lastSet
           => \E h \in Handlers :
                 /\ pc[h] \in {"sent", "set"}
                 /\ chain[h] = "segments"
                 /\ Template(msg[h]).has_cd
                 /\ pc'[h] = "idle")]_vars

C5_Witness ==
    \E h \in Handlers :
        /\ pc[h] = "returned"
        /\ chain[h] \in {"none", "empty"}
        /\ Template(msg[h]).has_cd
        /\ LedgerKey(msg[h]) \notin DOMAIN lastSet
        /\ Entry(cooling_data, LedgerKey(msg[h])) = {}

\* the time of the last set_cooling for a lexicon id
LastSetAt(lexicon_id) ==
    LET ats == {lastSet[key].at : key \in {x \in DOMAIN lastSet : x[1] = lexicon_id}}
    IN CHOOSE t \in ats : \A u \in ats : u <= t

\* the records of the entries set for a lexicon id that are unexpired at time t
SetRecords(lexicon_id, t) ==
    {[user_id |-> key[2], item_index |-> key[3], expire_time |-> lastSet[key].expire] :
        key \in {x \in DOMAIN lastSet : x[1] = lexicon_id /\ lastSet[x].expire > t}}

\* C6: once the quiet period after the last set for a lexicon id is over, the
\* one write that was due then is made or under way, and it holds every entry
\* those sets recorded that was unexpired when it was due.
C6_WriteAfterQuietPeriod ==
    \A lexicon_id \in {key[1] : key \in DOMAIN lastSet} :
        now > LastSetAt(lexicon_id) + QuietTicks
        => LET due == SetRecords(lexicon_id, LastSetAt(lexicon_id) + QuietTicks) IN
           \/ /\ save_task.st = "writing"
              /\ save_task.lex = lexicon_id
              /\ due \subseteq save_task.save_data
           \/ /\ lexicon_id \in DOMAIN cooling_files
              /\ due \subseteq cooling_files[lexicon_id]

\* C7: when no save is pending and no handler is in flight, every entry a set
\* recorded that is still unexpired is in the cooldown file of its lexicon id.
C7_EveryEntryWritten ==
    (save_task.st = "none" /\ \A h \in Handlers : pc[h] = "idle")
    => \A lexicon_id \in {key[1] : key \in DOMAIN lastSet} :
          SetRecords(lexicon_id, now) # {}
          => /\ lexicon_id \in DOMAIN cooling_files
             /\ SetRecords(lexicon_id, now) \subseteq cooling_files[lexicon_id]

\* C8: the save prunes the table of its lexicon id to the entries whose
\* expire_time is later than its current_time and writes exactly these: the
\* file it leaves holds no entry that had expired by then.
C8_WriteIsUnexpiredEntries ==
    [][/\ (save_task.st = "sleeping" /\ save_task'.st = "writing")
          => /\ save_task'.save_data =
                   {r \in ToRecords(cooling_data[save_task.lex]) : r.expire_time > now}
             /\ ToRecords(cooling_data'[save_task.lex]) = save_task'.save_data
       /\ (save_task.st = "writing" /\ save_task'.st = "none")
          => /\ cooling_files'[save_task.lex] = save_task.save_data
             /\ \A r \in cooling_files'[save_task.lex] :
                   r.expire_time > save_task.current_time]_vars

C8_Witness ==
    /\ save_task.st = "writing"
    /\ save_task.save_data # {}
    /\ save_task.save_data = ToRecords(cooling_data[save_task.lex])
    /\ \E key \in DOMAIN lastSet :
          /\ key[1] = save_task.lex
          /\ lastSet[key].expire <= save_task.current_time
          /\ Entry(cooling_data, key) = {}

\* C9: when select_config holds an entry for the user and switch_config holds
\* one for the group, get_lexicon_id returns the user's entry.
C9_UserOverrideFirst ==
    (resolved.called /\ resolved.has_user /\ resolved.has_group)
    => resolved.id = resolved.user_ov

C9_Witness ==
    /\ resolved.called
    /\ resolved.has_user
    /\ resolved.has_group
    /\ resolved.user_ov # ""
    /\ resolved.group_ov # ""
    /\ resolved.user_ov # resolved.group_ov
    /\ resolved.id = resolved.user_ov

\* C10: an override that is present but empty is skipped: without a non-empty
\* entry for the user, get_lexicon_id returns the group's non-empty entry, and
\* without that the group id, or "private_" + user_id when the group id is empty.
C10_EmptyOverrideSkipped ==
    LET user_set == resolved.has_user /\ resolved.user_ov # ""
        group_set == resolved.has_group /\ resolved.group_ov # ""
    IN (resolved.called /\ ~user_set)
       => resolved.id = IF group_set THEN resolved.group_ov
                        ELSE IF resolved.group_id # "" THEN resolved.group_id
                        ELSE "private_" \o resolved.user_id

\* ---- search
\* a rule is satisfied by a text: the wildcard pattern matches it, or the
\* pattern of an exact rule equals it, or the pattern of a fuzzy rule occurs in it
Satisfied(rule, text) ==
    \/ IsSubstring(<<"[", "n", ".">>, rule.key) /\ match_wildcard(rule.key, text).matched
    \/ rule.s = 1 /\ rule.key = text
    \/ rule.s = 0 /\ IsSubstring(rule.key, text)

Visible(rule, is_privileged) == rule.s # 10 \/ is_privileged

\* the documents a search looks into, in order
DocsSearched(group_id, user_id) ==
    LET id == get_lexicon_id(select_config, switch_config, group_id, user_id)
        default == IF group_id = "" THEN "private_" \o user_id ELSE group_id
    IN <<"builtin_default", id>> \o (IF id # default THEN <<default>> ELSE <<>>)

\* the document of an id as a search that starts in this state finds it
DocNow(lid) == DocOf(lexicons, lexicon_files, lid)

\* some rule of the document is visible to the caller and satisfied by the text
Answers(lid, text, is_privileged) ==
    \E i \in 1 .. Len(DocNow(lid)) :
        Visible(DocNow(lid)[i], is_privileged) /\ Satisfied(DocNow(lid)[i], text)

\* this step is a search_keyword call; found' holds its arguments and result
Searched == found' # found

\* C11: builtin_default is examined first: when builtin_default, the resolved
\* document and the scope's default document each hold a rule that the text
\* satisfies, the match returned is a rule of builtin_default.
C11_BuiltinFirst ==
    [][Searched =>
        LET q == found'
            ids == DocsSearched(q.group_id, q.user_id)
        IN (\A n \in 1 .. Len(ids) : Answers(ids[n], q.text, q.is_admin))
           => q.result.found /\ q.result.lexicon_id = "builtin_default"]_vars

\* C12: the search returns the first satisfying rule of the nested order
\* (documents in search order, rules in insertion order): the rule returned is
\* visible and satisfied and no rule before it is; none is returned only when
\* no visible rule of a searched document is satisfied.
C12_FirstInOrder ==
    [][Searched =>
        LET q == found'
            res == q.result
            ids == DocsSearched(q.group_id, q.user_id)
            good(n, i) == /\ Visible(DocNow(ids[n])[i], q.is_admin)
                          /\ Satisfied(DocNow(ids[n])[i], q.text)
        IN IF res.found
           THEN \E n \in 1 .. Len(ids) :
                   /\ ids[n] = res.lexicon_id
                   /\ res.item_index + 1 \in 1 .. Len(DocNow(ids[n]))
                   /\ DocNow(ids[n])[res.item_index + 1].key = res.keyword
                   /\ good(n, res.item_index + 1)
                   /\ \A i \in 1 .. res.item_index : ~good(n, i)
                   /\ \A m \in 1 .. n - 1 : \A i \in 1 .. Len(DocNow(ids[m])) : ~good(m, i)
           ELSE \A n \in 1 .. Len(ids) : \A i \in 1 .. Len(DocNow(ids[n])) : ~good(n, i)]_vars

\* C13: a search with is_privileged = false never returns a rule of
\* visibility 10, whether the text equals the pattern, contains it or matches
\* its wildcard form. (The documents of SpecSearch are never edited, so the
\* rule returned is still at its position.)
C13_HiddenFromUnprivileged ==
    (found.called /\ ~found.is_admin /\ found.result.found)
    => LET work == DocNow(found.result.lexicon_id)
           i == found.result.item_index + 1
       IN /\ i \in 1 .. Len(work)
          /\ work[i].key = found.result.keyword
          /\ work[i].s # 10

\* an unprivileged search passed over a rule of visibility 10 whose wildcard
\* pattern matches the text and returned a later rule of the same document
C13_Witness ==
    /\ found.called
    /\ ~found.is_admin
    /\ found.result.found
    /\ LET work == DocNow(found.result.lexicon_id)
       IN \E i \in 1 .. found.result.item_index :
             /\ work[i].s = 10
             /\ match_wildcard(work[i].key, found.text).matched

\* ---- editing
\* In this step the helper of kind `kind` called as operation o has the
\* document in hand and acts on it: the call found the id cached, or its load
\* has just ended.
Acts(o, kind) ==
    /\ ops'[o].kind = kind
    /\ ops'[o].pc \in {"idle", "open"}
    /\ \/ ops[o].pc = "idle" /\ ops'[o] # ops[o]
       \/ ops[o].pc \in {"read", "create"}

\* C14: add_rule with a pattern that the resolved document already holds
\* returns failure, and the rules of the document and its file stay as they were.
C14_DuplicateAddRejected ==
    [][\A o \in Ops :
          LET lid == ops'[o].lexicon_id
          IN (Acts(o, "add") /\ HasKey(DocNow(lid), ops'[o].keyword))
             => /\ ops'[o].pc = "idle"
                /\ ops'[o].ret = "fail"
                /\ lexicons'[lid] = DocNow(lid)
                /\ lid \in DOMAIN lexicon_files
                /\ lexicon_files'[lid] = lexicon_files[lid]]_vars

\* an add has returned failure on a document that holds its pattern
C14_Witness ==
    \E o \in Ops :
        /\ ops[o].kind = "add"
        /\ ops[o].pc = "idle"
        /\ ops[o].ret = "fail"
        /\ HasKey(lexicons[ops[o].lexicon_id], ops[o].keyword)
        /\ lexicon_files[ops[o].lexicon_id] = File(lexicons[ops[o].lexicon_id])

\* C15: whatever add_rule, remove_rule, add_response, remove_response, clear
\* and built-in import operations have run, with the sanitization flag on or
\* off, no cached document holds two rules with the same pattern.
C15_PatternsUnique ==
    \A lid \in DOMAIN lexicons :
        \A i, j \in 1 .. Len(lexicons[lid]) :
            i # j => lexicons[lid][i].key # lexicons[lid][j].key

\* the rules of the document that have the keyword as pattern and the
\* response among their responses
RulesWith(work, keyword, response) ==
    {i \in 1 .. Len(work) :
        /\ work[i].key = keyword
        /\ \E k \in 1 .. Len(Resp(builtin_keywords, work[i])) :
              Resp(builtin_keywords, work[i])[k] = response}

\* C16: remove_response on a rule whose only response is the one named
\* deletes the rule: the call succeeds, the pattern is in no rule of the
\* document afterwards (so in no listing and no search of it), and the other
\* rules keep their order.
C16_LastResponseDeletesRule ==
    [][\A o \in Ops :
          LET lid == ops'[o].lexicon_id
              keyword == ops'[o].keyword
              work == DocNow(lid)
              hits == RulesWith(work, keyword, ops'[o].response)
              t == CHOOSE i \in hits : \A j \in hits : i <= j
          IN (/\ Acts(o, "remove_response")
              /\ hits # {}
              /\ Resp(builtin_keywords, work[t]) = <<ops'[o].response>>)
             => /\ ops'[o].ret = "ok"
                /\ ~HasKey(lexicons'[lid], keyword)
                /\ \A n \in 1 .. Len(list_keywords(builtin_keywords', lexicons'[lid], <<>>)) :
                      list_keywords(builtin_keywords', lexicons'[lid], <<>>)[n].key # keyword
                /\ lexicons'[lid] = RemoveAt(work, t)]_vars

\* C17: whatever add_rule, add_response, remove_response, remove_rule and
\* built-in import operations have run, every rule of every cached document
\* has at least one response.
C17_RulesHaveResponses ==
    \A lid \in DOMAIN lexicons :
        \A i \in 1 .. Len(lexicons[lid]) :
            Resp(builtin_keywords, lexicons[lid][i]) # <<>>

\* C18: no sequence of add and remove of rules and responses, clear, backup,
\* lexicon switch and built-in import changes the rules of builtin_default,
\* in the cache or in its file (a file that a save has opened and not yet
\* written is not looked at).
C18_BuiltinDefaultKept ==
    /\ "builtin_default" \in DOMAIN lexicons
       => Dumped(builtin_keywords, lexicons["builtin_default"]) = BuiltinWork(BuiltinKeywords)
    /\ "builtin_default" \in DOMAIN lexicon_files
    /\ lexicon_files["builtin_default"].ok
       => lexicon_files["builtin_default"].work = BuiltinWork(BuiltinKeywords)

\* ---- load and save
\* in this step operation o calls a helper that loads its document
Loads(o) == ops[o].pc = "idle" /\ ops'[o] # ops[o] /\ ops'[o].kind # "clear"

\* in this step the get_lexicon call of operation o ends
LoadEnds(o) == ops[o].pc \in {"read", "create"}

\* C19: get_lexicon never raises. For a missing file it returns an empty
\* document, which it caches and writes to the file (when the write fails,
\* the empty document is cached only); when reading or parsing the file fails
\* it returns an empty document held in the cache; a later load of the id
\* returns the cached document and reads no file.
C19_LoadNeverRaises ==
    [][\A o \in Ops :
          LET lid == ops'[o].lexicon_id
              listed == ops'[o].kind = "list"
          IN /\ ops'[o].got # "raised"
             /\ (LoadEnds(o) /\ lid \notin DOMAIN lexicon_files)
                => /\ ops'[o].got \in {"created", "failed"}
                   /\ ops'[o].got = "created"
                      => lid \in DOMAIN lexicon_files' /\ lexicon_files'[lid] = File(<<>>)
                   /\ listed => lexicons'[lid] = <<>>
             /\ (LoadEnds(o) /\ lid \in DOMAIN lexicon_files /\ ops'[o].got = "failed")
                => /\ lexicon_files' = lexicon_files
                   /\ listed => lexicons'[lid] = <<>>
             /\ (Loads(o) /\ lid \in DOMAIN lexicons)
                => /\ ops'[o].got = "cached"
                   /\ lexicon_files' = lexicon_files
                   /\ listed => lexicons' = lexicons]_vars

\* a listing whose load failed on a file that is there has returned, the cache
\* holding an empty document for the id
C19_Witness ==
    /\ ops["o1"].kind = "list"
    /\ ops["o1"].pc = "idle"
    /\ ops["o1"].got = "failed"
    /\ lexicons["g1"] = <<>>
    /\ "g1" \in DOMAIN lexicon_files
    /\ lexicon_files["g1"] # File(<<>>)

\* C20: whenever every save started for a lexicon id has returned and none
\* failed to write, the cached document of the id and its file are the same
\* document, whatever the interleaving of the saves.
C20_CacheMatchesFile ==
    \A lid \in DOMAIN lexicons :
        (/\ \A o \in Ops : ops[o].lexicon_id = lid => ops[o].pc = "idle"
         /\ \A o \in Ops : ops[o].save # "failed"
         /\ \E o \in Ops : ops[o].lexicon_id = lid /\ ops[o].save = "ok")
        => /\ lid \in DOMAIN lexicon_files
           /\ lexicon_files[lid] = File(Dumped(builtin_keywords, lexicons[lid]))

\* the documents, as get_lexicon gives them, are the same before and after the
\* step, and so are the builtin responses they share
DocsKept ==
    /\ \A lid \in MessageIds :
          DocOf(lexicons', lexicon_files', lid) = DocOf(lexicons, lexicon_files, lid)
    /\ builtin_keywords' = builtin_keywords

\* C21: the handling of a message whose sender is not in admin_ids changes no
\* lexicon document and no user override, whatever its text, and its text goes
\* through search_keyword; a message of a privileged sender that
\* handle_admin_command handles is never passed to search_keyword.
C21_CommandsOnlyForPrivileged ==
    [][/\ \A group_id \in GroupIds, user_id \in Users, message \in Messages :
             (user_id \notin config.admin_ids
              /\ HandleMessage("o1", group_id, user_id, message))
             => /\ DocsKept
                /\ select_config' = select_config
                /\ select_file' = select_file
                /\ found'.called /\ found'.text = message /\ found'.user_id = user_id
       /\ found' # found
          => ~(found'.user_id \in config.admin_ids
               /\ handle_admin_command(found'.text).handled)]_vars

\* a sender outside admin_ids has sent the text of a delete command, and it
\* was matched as a keyword
C21_Witness ==
    /\ found.called
    /\ found.user_id \notin config.admin_ids
    /\ handle_admin_command(found.text).handled
    /\ found.result.found
    /\ \E lid \in DOMAIN lexicons : lexicons[lid] # <<>>

\* a privileged sender's delete command has removed the rule of the group
C21_WitnessHandled ==
    /\ ops["o1"].kind = "remove" /\ ops["o1"].ret = "ok" /\ ops["o1"].save = "ok"
    /\ "g1" \in DOMAIN lexicons /\ lexicons["g1"] = <<>>

\* C22: the clear command (词库清空) empties the resolved document only when it
\* is sent as a direct message (empty group id); sent in a group it leaves
\* every document as it was.
C22_ClearOnlyInDirectMessage ==
    [][\A group_id \in GroupIds, user_id \in Users :
          HandleMessage("o1", group_id, user_id, <<"clear">>)
          => IF group_id = ""
             THEN DocOf(lexicons', lexicon_files', CurrentId(group_id, user_id)) = <<>>
             ELSE DocsKept]_vars

\* the step is the handling of a 切换词库 command of the privileged user
\* `user_id` with a non-empty name
Switches(user_id, lexicon_name) ==
    /\ user_id \in config.admin_ids
    /\ lexicon_name # ""
    /\ \E group_id \in GroupIds, message \in SwitchMessages :
          /\ handle_admin_command(message) = Command("switch", <<>>, lexicon_name, 0)
          /\ HandleMessage("o1", group_id, user_id, message)

\* C23: a 切换词库 <name> of a privileged user makes get_lexicon_id return
\* <name> for that user in every scope until their next switch, leaves the
\* resolution of every other user as it was, and select.txt then holds the
\* override: load_configs reads from it the overrides in force.
C23_SwitchHoldsAndPersists ==
    [][/\ \A user_id \in Users, name \in {Text(strip(Tail(m))) : m \in SwitchMessages} :
             Switches(user_id, name)
             => /\ \A group_id \in GroupIds :
                      get_lexicon_id(select_config', switch_config', group_id, user_id) = name
                /\ \A other \in Users \ {user_id}, group_id \in GroupIds :
                      get_lexicon_id(select_config', switch_config', group_id, other)
                      = get_lexicon_id(select_config, switch_config, group_id, other)
                /\ user_id \in DOMAIN load_configs(select_file')
                /\ load_configs(select_file')[user_id] = name
       /\ \A user_id \in Users :
             (\E group_id \in GroupIds :
                 get_lexicon_id(select_config', switch_config', group_id, user_id)
                 # get_lexicon_id(select_config, switch_config, group_id, user_id))
             => \E name \in {Text(strip(Tail(m))) : m \in SwitchMessages} :
                   Switches(user_id, name)]_vars

\* process_response has been called and has ended
Rendered == evaluated.fn = "process_response"

\* the texts the loop of the random numbers can leave for the call
Randomized ==
    {r \in RandomPass(ContextPass(WildcardPass(evaluated.response, evaluated.matches, 1),
                                  RenderEvent)) : r.raised = ""}

\* the expanded texts of the call
Expanded == {Expand(r.text, RenderEvent) : r \in Randomized}

\* the first conditional block of a text can be evaluated, and is true
FirstBlockIs(text, value) ==
    LET m == CondSearch(text, 1)
        c == Compare(SubSeq(text, m.start + 1, m.op - 1), text[m.op],
                     SubSeq(text, m.op + 1, m.close - 1))
    IN m.found /\ c.raised = "" /\ c.result = value

\* C24: when the first {A OP B} block of the expanded text is true, the call
\* returns the segments of the text without that block; when it is false, the
\* call returns None.
C24_FirstBlockDecides ==
    Rendered =>
        /\ (Expanded # {} /\ \A e \in Expanded : FirstBlockIs(e, FALSE))
           => evaluated.result = NoChain("none")
        /\ (Expanded # {} /\ \A e \in Expanded : FirstBlockIs(e, TRUE))
           => \E e \in Expanded :
                 evaluated.result =
                    [kind |-> "chain",
                     chain |-> parse_special_commands(RemoveFirstBlock(e), RenderEvent)]

\* the text holds the shape of the cooldown directive, ( digits ~ ), from position i on
RECURSIVE HasCooldown(_, _)
HasCooldown(text, i) ==
    /\ i <= Len(text)
    /\ \/ LET n == DigitRun(text, i + 1)
          IN /\ text[i] = "(" /\ n > 0 /\ i + n + 2 <= Len(text)
             /\ text[i + n + 1] = "~" /\ text[i + n + 2] = ")"
       \/ HasCooldown(text, i + 1)

\* C25: no segment of a rendered chain holds the text of a cooldown directive (N~).
C25_CooldownStripped ==
    (Rendered /\ evaluated.result.kind = "chain")
       => \A k \in 1 .. Len(evaluated.result.chain) :
             ~HasCooldown(evaluated.result.chain[k].arg, 1)

\* the first conditional block of a text cannot be evaluated
FirstBlockFails(text) ==
    LET m == CondSearch(text, 1)
    IN m.found /\ Compare(SubSeq(text, m.start + 1, m.op - 1), text[m.op],
                          SubSeq(text, m.op + 1, m.close - 1)).raised # ""

\* C26: when the comparison of the conditional block cannot be evaluated, the
\* call returns None: it raises nothing and sends nothing.
C26_BadComparisonSuppresses ==
    (Rendered /\ Expanded # {} /\ \A e \in Expanded : FirstBlockFails(e))
       => evaluated.result = NoChain("none")

\* the texts the loop of the random numbers stops at with a pattern (A-B), A > B
Unevaluable ==
    {r.text : r \in {x \in RandomPass(ContextPass(WildcardPass(evaluated.response,
                                                               evaluated.matches, 1),
                                                  RenderEvent)) : x.raised # ""}}

\* C27: a pattern (A-B) with A > B raises nothing: the text is left as it is
\* and the call goes on with the later steps to a chain or to None.
C27_BadRangeLeftAsIs ==
    Rendered =>
       /\ evaluated.result.kind # "ValueError"
       /\ (Unevaluable # {} /\ Randomized = {})
          => \E text \in Unevaluable : evaluated.result = AfterRandom(text, RenderEvent)

\* the keys parse_special_commands has a component for
DirectiveKeys ==
    {<<"i", "m", "a", "g", "e">>, <<"tupian">>, <<"a", "t">>, <<"aite">>,
     <<"f", "a", "c", "e">>, <<"biaoqing">>, <<"r", "e", "p", "l", "y">>, <<"huifu">>,
     <<"r", "e", "c", "o", "r", "d">>, <<"yuyin">>, <<"p", "o", "k", "e">>}

\* a part of the split is a bracketed token that is no directive: it has no
\* '.', or its key is unknown
NotDirective(part) ==
    /\ Len(part) >= 2 /\ part[1] = "[" /\ part[Len(part)] = "]"
    /\ LET cmd_parts == SplitDots(SubSeq(part, 2, Len(part) - 1))
       IN Len(cmd_parts) < 2 \/ cmd_parts[1] \notin DirectiveKeys

\* the chain of the parts when every token that is no directive stands as text
RECURSIVE LiteralChainOf(_, _)
LiteralChainOf(parts, event) ==
    IF parts = <<>> THEN <<>>
    ELSE (IF NotDirective(parts[1]) THEN <<Plain(parts[1])>> ELSE Components(parts[1], event))
         \o LiteralChainOf(Tail(parts), event)

\* the texts the call can hand to parse_special_commands
Conditioned ==
    {c.text : c \in {x \in {ConditionalPass(e) : e \in Expanded} : x.kind = "text"}}

\* C28: a bracketed token that is no directive (unknown key, or no '.') is a
\* text segment of the chain, unchanged and at its place among the segments.
C28_UnknownTokenIsLiteral ==
    (Rendered /\ evaluated.result.kind = "chain")
       => \E text \in Conditioned :
             evaluated.result.chain = LiteralChainOf(SplitBrackets(text), RenderEvent)

\* C29: with either evaluator the loop of the expressions puts the value for
\* (+EXPR) exactly when EXPR has one, and leaves the text (+EXPR) otherwise, a
\* division by zero included: it leaves what the arithmetic of Python leaves.
C29_ArithmeticByValue ==
    Rendered =>
       \A r \in Randomized :
          ArithPass(TimePass(r.text, RenderEvent), config.simpleeval_available)
             = ArithPass(TimePass(r.text, RenderEvent), TRUE)

\* the pattern with the capture of slot K in the place of every placeholder [n.K]
RECURSIVE Substituted(_, _)
Substituted(p, slots) ==
    IF p = <<>> THEN <<>>
    ELSE LET n == IF Len(p) >= 5 /\ p[1] = "[" /\ p[2] = "n" /\ p[3] = "."
                  THEN DigitRun(p, 4) ELSE 0
         IN IF n > 0 /\ Len(p) >= 4 + n /\ p[4 + n] = "]"
            THEN slots[IntOf(SubSeq(p, 4, 3 + n))] \o Substituted(SubSeq(p, 5 + n, Len(p)), slots)
            ELSE <<p[1]>> \o Substituted(Tail(p), slots)

\* the placeholders [n.K] of a pattern have distinct indices K in 1 .. 5
DistinctSlots(pattern) ==
    LET phs == Placeholders(pattern)
    IN /\ \A i \in 1 .. Len(phs) : phs[i] \in 1 .. 5
       /\ \A i, j \in 1 .. Len(phs) : i # j => phs[i] # phs[j]

\* C30: when a pattern whose placeholders [n.K] have distinct indices in 1..5
\* matches a text, slot K of the result holds a capture that is not empty for
\* every placeholder, every other slot is empty, and the pattern with the
\* captures in the place of the placeholders is the text.
C30_WildcardRoundTrip ==
    (/\ evaluated.fn = "match_wildcard"
     /\ evaluated.result.matched
     /\ DistinctSlots(evaluated.pattern))
       => LET phs == Placeholders(evaluated.pattern)
              slots == evaluated.result.result
          IN /\ \A K \in 0 .. 5 :
                   (slots[K] # <<>>) <=> (\E i \in 1 .. Len(phs) : phs[i] = K)
             /\ Substituted(evaluated.pattern, slots) = evaluated.text

\* a rule is satisfied by a text when a rule of visibility 10 is read as an
\* exact or fuzzy rule: as Satisfied, or its pattern occurs in the text
SatisfiedDerived(rule, text) ==
    Satisfied(rule, text) \/ (rule.s = 10 /\ IsSubstring(rule.key, text))

\* C31: for a privileged caller a rule of visibility 10 whose pattern holds no
\* placeholder and equals the text is the match returned, when no rule before
\* it in the search order is satisfied by the text.
C31_AdminRuleMatchable ==
    [][(Searched /\ found'.is_admin) =>
        LET q == found'
            ids == DocsSearched(q.group_id, q.user_id)
        IN \A n \in 1 .. Len(ids) : \A i \in 1 .. Len(DocNow(ids[n])) :
              (/\ DocNow(ids[n])[i].s = 10
               /\ ~IsSubstring(<<"[", "n", ".">>, DocNow(ids[n])[i].key)
               /\ DocNow(ids[n])[i].key = q.text
               /\ \A j \in 1 .. i - 1 : ~SatisfiedDerived(DocNow(ids[n])[j], q.text)
               /\ \A m \in 1 .. n - 1 : \A j \in 1 .. Len(DocNow(ids[m])) :
                     ~SatisfiedDerived(DocNow(ids[m])[j], q.text))
              => /\ q.result.found
                 /\ q.result.lexicon_id = ids[n]
                 /\ q.result.item_index = i - 1]_vars

\* the text the loop of the random numbers is run on
RandomInput ==
    ContextPass(WildcardPass(evaluated.response, evaluated.matches, 1), RenderEvent)

\* the texts one pass over the patterns (A-B) of a text leaves, from position
\* i on: each pattern from left to right gets a number of its range, and the
\* text that was put in is not looked at again
RECURSIVE RandomOnce(_, _)
RandomOnce(text, i) ==
    LET j == RandomSearch(text, i)
        a == DigitRun(text, j + 1)
        b == DigitRun(text, j + a + 2)
        min_val == IntOf(SubSeq(text, j + 1, j + a))
        max_val == IntOf(SubSeq(text, j + a + 2, j + a + b + 1))
    IN IF j = 0 THEN {text}
       ELSE IF min_val > max_val THEN RandomOnce(text, j + a + b + 3)
       ELSE UNION {RandomOnce(Splice(text, j, a + b + 3, Str(n)), j + Len(Str(n))) :
                      n \in min_val .. max_val}

\* C32: the loop of the random numbers replaces the patterns (A-B) of its
\* input, once each, from left to right: the call returns what the later
\* steps make of such a text, and a pattern that a replacement brought about
\* is not replaced.
C32_GeneratedPatternKept ==
    (Rendered /\ evaluated.result.kind # "ValueError")
       => \E text \in RandomOnce(RandomInput, 1) :
             evaluated.result = AfterRandom(text, RenderEvent)

\* a text holds a conditional block after its first one
LaterBlock(text) ==
    LET m == CondSearch(text, 1) IN m.found /\ CondSearch(text, m.close + 1).found

\* C33: when the first conditional block is true and the text holds a later
\* block, the later block is not removed: the chain returned is that of the
\* text without its first block.
C33_LaterBlocksKept ==
    (/\ Rendered
     /\ Expanded # {}
     /\ \A e \in Expanded : FirstBlockIs(e, TRUE) /\ LaterBlock(e))
       => \E e \in Expanded :
             evaluated.result =
                [kind |-> "chain",
                 chain |-> parse_special_commands(RemoveFirstBlock(e), RenderEvent)]

\* the number of matches of the pattern (A-B) in a text from position i on,
\* as re.findall counts them
RECURSIVE RandomCount(_, _)
RandomCount(text, i) ==
    LET j == RandomSearch(text, i)
    IN IF j = 0 THEN 0
       ELSE 1 + RandomCount(text, j + DigitRun(text, j + 1)
                                    + DigitRun(text, j + DigitRun(text, j + 1) + 2) + 3)

\* the texts one iteration of the loop of the random numbers can leave: none
\* when the iteration stops the loop (no match, or the exception)
RandomNext(text) ==
    LET i == RandomSearch(text, 1)
        a == DigitRun(text, i + 1)
        b == DigitRun(text, i + a + 2)
        min_val == IntOf(SubSeq(text, i + 1, i + a))
        max_val == IntOf(SubSeq(text, i + a + 2, i + a + b + 1))
    IN IF i = 0 \/ min_val > max_val THEN {}
       ELSE {Splice(text, i, a + b + 3, Str(n)) : n \in min_val .. max_val}

\* the texts the loop of the random numbers can have at the head of an iteration
RECURSIVE RandomLoop(_)
RandomLoop(text) == {text} \cup UNION {RandomLoop(t) : t \in RandomNext(text)}

\* the same for the loop of the expressions
RECURSIVE ArithCount(_, _)
ArithCount(text, i) ==
    LET j == ArithSearch(text, i)
    IN IF j = 0 THEN 0 ELSE 1 + ArithCount(text, ArithAt(text, j) + 1)

ArithNext(text) ==
    LET i == ArithSearch(text, 1)
        close == ArithAt(text, i)
        result == evaluate(config.simpleeval_available, SubSeq(text, i + 2, close - 1))
    IN IF i = 0 THEN {}
       ELSE IF result.none THEN {}
       ELSE {Splice(text, i, close - i + 1, Str(result.val))}

RECURSIVE ArithLoop(_)
ArithLoop(text) == {text} \cup UNION {ArithLoop(t) : t \in ArithNext(text)}

\* C39: the loop of the random numbers and the loop of the expressions end for
\* every text: an iteration that does not stop the loop leaves a text with
\* fewer matches of the loop's pattern than the text it started from.
C39_LoopsReduceMatches ==
    Rendered =>
       /\ \A t \in RandomLoop(RandomInput) : \A u \in RandomNext(t) :
             RandomCount(u, 1) < RandomCount(t, 1)
       /\ \A r \in Randomized :
             \A t \in ArithLoop(TimePass(r.text, RenderEvent)) : \A u \in ArithNext(t) :
                ArithCount(u, 1) < ArithCount(t, 1)

\* ---- the save tasks
\* the save tasks that have not ended and are not cancelled: the one
\* _save_task refers to, and those among the tasks it referred to before
PendingTasks ==
    (IF save_task.st # "none" THEN 1 ELSE 0)
    + Cardinality({i \in 1 .. Len(old_tasks) : ~old_tasks[i].cancelled})

\* C34: at every moment at most one save task is pending and not cancelled (a
\* task that _schedule_save replaced before it ended is cancelled), and no
\* cancelled task holds the lock: the lock is held across a suspension only by
\* the task _save_task refers to, while it writes.
C34_OneSaveTaskPending ==
    /\ PendingTasks <= 1
    /\ \A i \in 1 .. Len(old_tasks) : old_tasks[i].cancelled => old_tasks[i].st # "writing"
    /\ lockHeld => save_task.st = "writing"

\* a set_cooling within the quiet period has cancelled a sleeping task and
\* scheduled another one; the cancelled task has not ended yet
C34_Witness ==
    /\ save_task.st = "sleeping"
    /\ old_tasks # <<>>
    /\ old_tasks[1].cancelled

\* ---- the frame of check and set
\* the keys (lexicon id, user, rule index) an entry can stand under
LedgerKeys == {<<l, u, i>> : l \in Lexicons, u \in Users, i \in 0 .. 1}

\* a step in which set_cooling of handler h writes its entry
SetWrites(h) == pc[h] \in {"sent", "set"} /\ pc'[h] = "idle" /\ lastSet' # lastSet

\* C35: a check of (u, L, i) whose entry has not expired changes nothing in
\* the ledger, and a set of (u, L, i) changes the entry of (L, u, i) only: the
\* entries of every other key keep their expire_time.
C35_CheckAndSetFrame ==
    [][\A h \in Handlers :
          /\ (/\ CheckReturns(h)
              /\ \E e \in Entry(cooling_data, LedgerKey(msg'[h])) : e > now)
             => cooling_data' = cooling_data
          /\ SetWrites(h)
             => \A key \in LedgerKeys \ {LedgerKey(msg[h])} :
                   Entry(cooling_data', key) = Entry(cooling_data, key)]_vars

\* ---- cooldowns and the rules they were recorded for
\* the completed sets of user_id in lexicon_id for the rule with this keyword
\* whose expire_time is at least `left` ticks away
Recorded(lexicon_id, user_id, keyword, left) ==
    {key \in DOMAIN lastSet :
        /\ key[1] = lexicon_id
        /\ key[2] = user_id
        /\ lastSet[key].keyword = keyword
        /\ lastSet[key].expire - now >= left}

\* C36: a cooldown recorded for a rule stays with that rule while other rules
\* are added to or removed from its document: a later trigger of the rule by
\* the same user is blocked while the cooldown has a second or more left, and
\* a trigger is blocked only by a cooldown recorded for the rule it matched,
\* never by the entry of another rule that had the same index.
C36_CooldownFollowsRule ==
    [][\A h \in Handlers :
          CheckReturns(h)
          => LET m == msg'[h]
             IN /\ (/\ Keyword(m) \in RuleKeys
                    /\ Recorded(m.lex, m.user, Keyword(m), TicksPerSec) # {})
                   => (pc'[h] = "notice" /\ cooling'[h] >= 1)
                /\ pc'[h] = "notice"
                   => Recorded(m.lex, m.user, Keyword(m), 1) # {}]_vars

\* the rule "c" is triggered again after the rule before it was removed
C36_Moved ==
    /\ pc["h1"] \in {"notice", "sent", "returned"}
    /\ Keyword(msg["h1"]) = <<"c">>
    /\ msg["h1"].idx = 0
    /\ Recorded("g1", "u1", <<"c">>, TicksPerSec) # {}

\* ---- concurrent helper calls on a cached document
\* in this step operation o is called
Calls(o) == ops[o].pc = "idle" /\ ops'[o] # ops[o]

\* the work list a helper called with the arguments of `rec` leaves, run alone
\* on the list `work`
Alone(rec, work) ==
    CASE rec.kind = "add" ->
           add_keyword(work, config.mistake_turn_type, rec.keyword, rec.response, rec.mode)
      [] rec.kind = "remove" -> remove_keyword(work, rec.keyword)
      [] rec.kind = "add_response" ->
           add_response(builtin_keywords, work, rec.keyword, rec.response)
      [] rec.kind = "remove_response" ->
           remove_response(builtin_keywords, work, rec.keyword, rec.response)

\* operation p is a successful add_rule of `keyword` that has not returned, and
\* the rule it appended is in the document
AddInFlight(p, keyword) ==
    /\ ops[p].pc # "idle"
    /\ ops[p].kind = "add"
    /\ ops[p].keyword = keyword
    /\ ops[p].ret = "ok"
    /\ HasKey(lexicons[ops[p].lexicon_id],
              IF config.mistake_turn_type THEN mistake_turn(keyword) ELSE keyword)

\* C37: on a cached document the concurrent calls of add_rule, remove_rule,
\* add_response and remove_response act as if run one after another in the
\* order they were called: the cached document changes only in the step of a
\* successful call, which leaves what the helper run alone on the document
\* leaves, so no successful mutation is lost; and an add_rule of a pattern
\* fails while a successful add_rule of the same pattern has not returned.
C37_HelpersSerial ==
    [][(\A lid \in DOMAIN lexicons :
           lexicons'[lid] # lexicons[lid]
           => \E o \in Ops :
                 /\ Calls(o)
                 /\ ops'[o].lexicon_id = lid
                 /\ ops'[o].ret = "ok"
                 /\ lexicons'[lid] = Alone(ops'[o], lexicons[lid]).work)
       /\ (\A o, p \in Ops :
             (/\ Calls(o)
              /\ ops'[o].kind = "add"
              /\ ops'[o].lexicon_id \in DOMAIN lexicons
              /\ o # p
              /\ AddInFlight(p, ops'[o].keyword))
             => ops'[o].ret = "fail")]_vars

\* ---- what a helper leaves alone
Helpers == {"add", "remove", "add_response", "remove_response"}

\* in this step a mutating helper of operation o, called or resumed after its
\* load, has changed its document or returned its failure
Mutates(o) ==
    /\ ops[o].pc \in {"idle", "read", "create"}
    /\ ops'[o] # ops[o]
    /\ ops'[o].kind \in Helpers
    /\ ops'[o].ret # ""

\* C38: a mutating helper changes the document resolved for its (scope_id,
\* user_id) only: the rules and responses of every other cached document and
\* builtin_keywords are the same after it, also when the built-in rules
\* were imported into several documents.
C38_OnlyThatDocument ==
    [][\A o \in Ops :
          Mutates(o)
          => /\ builtin_keywords' = builtin_keywords
             /\ \A lid \in DOMAIN lexicons \ {ops'[o].lexicon_id} :
                   Dumped(builtin_keywords', lexicons'[lid])
                       = Dumped(builtin_keywords, lexicons[lid])]_vars

====
